---------------------------- MODULE Spec2Model ----------------------------
(***************************************************************************)
(* The tools of squber (src/app/src/squber/__init__.py): query_data,       *)
(* squber_howto, get_market_report, trip_advisor,                          *)
(* futures_contract_explorer, futures_market_data,                         *)
(* futures_position_tracker, futures_hedge_advisor and                     *)
(* futures_basis_analysis, over the database they query                    *)
(* (src/src/squber/database.py), whose calls can raise; the API keys      *)
(* (src/src/squber/auth.py); the HTTP wrapper that runs a tool through a   *)
(* stdio session per request (src/src/squber/http_server.py); the          *)
(* Streamable HTTP server (src/app/src/squber/sse_server.py); and the      *)
(* reverse proxy with its WebSocket relay (src/app/proxy.py).              *)
(*                                                                         *)
(* Numbers.  Prices are integers in mils (1/1000 dollar per pound), the    *)
(* resolution the tools print prices with.  Margins are whole dollars.     *)
(* Python's float arithmetic is modelled by exact rational arithmetic: a   *)
(* quotient is a pair <<n, d>> in lowest terms with d > 0.  A nullable     *)
(* column is <<>> (NULL / None) or <<v>>.                                  *)
(***************************************************************************)
EXTENDS Integers, Sequences, FiniteSets, TLC

VARIABLES
    store,      \* the rows the store holds for the queries of the tool
    request,    \* the last tool invocation: tool name and arguments
    response,   \* the value the last invocation returned
    queries,    \* the queries the last invocation sent, in order
    tasks       \* the invocations in flight: each one's position and locals

vars == <<store, request, response, queries, tasks>>

-----------------------------------------------------------------------------
(* Nullable values and Python truthiness *)

None == <<>>
Some(v) == <<v>>
IsNone(x) == x = <<>>
Val(x) == x[1]

\* `if x:` on a nullable number: None and 0 are both false.
Truthy(x) == ~IsNone(x) /\ Val(x) # 0

\* `x or 0`
OrZero(x) == IF Truthy(x) THEN Val(x) ELSE 0

-----------------------------------------------------------------------------
(* Exact rationals *)

Abs(x) == IF x < 0 THEN -x ELSE x

RECURSIVE GCD(_, _)
GCD(a, b) == IF b = 0 THEN a ELSE GCD(b, a % b)

Rat(n, d) ==
    LET g == GCD(Abs(n), Abs(d))
        s == IF d < 0 THEN -1 ELSE 1
    IN  <<(s * n) \div g, (s * d) \div g>>

RInt(n) == <<n, 1>>
RAdd(a, b) ==
    LET g == GCD(a[2], b[2])
    IN  Rat(a[1] * (b[2] \div g) + b[1] * (a[2] \div g), a[2] * (b[2] \div g))
RSub(a, b) == RAdd(a, <<-b[1], b[2]>>)
RMul(a, b) == Rat(a[1] * b[1], a[2] * b[2])
RDiv(a, b) == Rat(a[1] * b[2], a[2] * b[1])
RLess(a, b) == a[1] * b[2] < b[1] * a[2]
RLeq(a, b) == a[1] * b[2] <= b[1] * a[2]

NoResponse == [kind |-> "none"]
NoTasks == <<>>
NoRequest == [tool |-> "none"]


\* Python's format(x, ".Nf") on the rational n/d (d > 0) scaled to the
\* printed unit: the nearest integer, an exact tie going to the even
\* neighbour.
RoundHalfEven(n, d) ==
    LET q == n \div d
        r == n - q * d
    IN  IF 2 * r < d THEN q
        ELSE IF 2 * r > d THEN q + 1
        ELSE IF q % 2 = 0 THEN q ELSE q + 1

-----------------------------------------------------------------------------
(* Bounds of the model *)

MaxPositions == 2      \* rows the open-positions query returns

-----------------------------------------------------------------------------
(* Program constants *)

LbsPerTon == 2000
AvailableMargin == 50000
MarginCallPct == 80

-----------------------------------------------------------------------------
(* The handlers' try / except and the database *)

\* The handler with its `except Exception` clause taken away: the exception
\* leaves the tool.  C19 tells it from ExceptionResponse.
ExceptionResponse_Propagated(type) == [kind |-> "raised", exception |-> type]

\* except Exception as e: return json.dumps({"error": str(e), ...})
ExceptionResponse(type) == [kind |-> "error", error |-> "exception",
                            exception |-> type]

\* The store's failing_query is the number of the execute_query call of a
\* run that raises (the database is unreachable, locked, or rejects the
\* statement), 0 when every call answers.  `issued` are the queries the run
\* sends when they all answer.
QueryFails(st, issued) == st.failing_query \in 1..Len(issued)

QueriesSent(st, issued) ==
    IF QueryFails(st, issued) THEN SubSeq(issued, 1, st.failing_query)
    ELSE issued

\* The results a run can return: those of the answered queries, or the
\* handler's error for the exception of the failing one.
Answers(st, issued, responses) ==
    IF QueryFails(st, issued) THEN {ExceptionResponse("OperationalError")}
    ELSE responses

WithFailure(st, k) == [st EXCEPT !.failing_query = k]

-----------------------------------------------------------------------------
(* The store: vessels *)

VesselNames == {"Pacific Hunter", "Ghost Ship"}

\* SELECT vessel_id, vessel_name[, capacity_tons] FROM vessels
\*  WHERE vessel_name = :vessel_name
VesselQuery(st, vessel_name) ==
    SelectSeq(st.vessels, LAMBDA v : v.vessel_name = vessel_name)

-----------------------------------------------------------------------------
(* futures_position_tracker *)

PositionTypes == {"long", "short"}
Quantities == {1, 3}
EntryPrices == {2000, 2200}
CurrentPrices == {None, Some(0), Some(2100)}
ContractSizes == {50}
Margins == {None, Some(100000)}

\* A row of positions_query, without its position_id: an open position of
\* the vessel joined with its contract and, by LEFT JOIN, the contract's
\* latest settle price (NULL when the contract has no price row).
PositionRows ==
    [position_type : PositionTypes, quantity : Quantities,
     entry_price : EntryPrices, contract_size_tons : ContractSizes,
     current_price : CurrentPrices, margin_requirement : Margins]

\* The rows of the vessel under test: open positions of vessel 1.
WithIds(f) ==
    [i \in DOMAIN f |->
        [position_id |-> i, vessel_id |-> 1, status |-> "open",
         position_type |-> f[i].position_type,
         quantity |-> f[i].quantity, entry_price |-> f[i].entry_price,
         contract_size_tons |-> f[i].contract_size_tons,
         current_price |-> f[i].current_price,
         margin_requirement |-> f[i].margin_requirement]]

\* Rows the query must leave out: a closed position of the vessel and an
\* open position of another vessel.
OtherPositions ==
    << [position_id |-> 98, vessel_id |-> 1, status |-> "closed",
        position_type |-> "long", quantity |-> 1, entry_price |-> 2000,
        contract_size_tons |-> 50, current_price |-> Some(2100),
        margin_requirement |-> Some(100000)],
       [position_id |-> 99, vessel_id |-> 2, status |-> "open",
        position_type |-> "short", quantity |-> 1, entry_price |-> 2000,
        contract_size_tons |-> 50, current_price |-> Some(2100),
        margin_requirement |-> Some(100000)] >>

\* positions_query: WHERE fp.vessel_id = :vessel_id AND fp.status = 'open'.
PositionsQuery(st, vessel_id) ==
    SelectSeq(st.positions,
              LAMBDA p : p.vessel_id = vessel_id /\ p.status = "open")

\* CurrentPnl with the quantity forgotten, and with the short side valued
\* as a long: C2 and C3 tell them from CurrentPnl.
CurrentPnl_NoQuantity(pos) ==
    IF pos.position_type = "long"
    THEN (Val(pos.current_price) - pos.entry_price)
            * pos.contract_size_tons * LbsPerTon
    ELSE (pos.entry_price - Val(pos.current_price))
            * pos.contract_size_tons * LbsPerTon

CurrentPnl_ShortAsLong(pos) ==
    (Val(pos.current_price) - pos.entry_price)
        * pos.contract_size_tons * LbsPerTon * pos.quantity

\* current_pnl of one position, in mils (price in mils times pounds).
CurrentPnl(pos) ==
    IF pos.position_type = "long"
    THEN (Val(pos.current_price) - pos.entry_price)
            * pos.contract_size_tons * LbsPerTon * pos.quantity
    ELSE (pos.entry_price - Val(pos.current_price))
            * pos.contract_size_tons * LbsPerTon * pos.quantity

\* position_info: prices as printed (mils), money as printed (cents),
\* margin_requirement None for "N/A".
PositionInfo(pos, current_pnl) ==
    [position_id |-> pos.position_id,
     position_type |-> pos.position_type,
     quantity |-> pos.quantity,
     entry_price |-> pos.entry_price,
     current_price |-> Val(pos.current_price),
     unrealized_pnl |-> RoundHalfEven(current_pnl, 10),
     margin_requirement |->
        IF Truthy(pos.margin_requirement)
        THEN Some(Val(pos.margin_requirement) * 100) ELSE None]

\* One pass of `for pos in positions_result["rows"]`.
TrackStep(acc, pos) ==
    IF Truthy(pos.current_price)
    THEN [positions |->
            Append(acc.positions, PositionInfo(pos, CurrentPnl(pos))),
          total_unrealized_pnl |-> acc.total_unrealized_pnl + CurrentPnl(pos),
          total_margin |-> acc.total_margin + OrZero(pos.margin_requirement)]
    ELSE acc

RECURSIVE TrackLoop(_, _, _)
TrackLoop(rows, i, acc) ==
    IF i > Len(rows) THEN acc
    ELSE TrackLoop(rows, i + 1, TrackStep(acc, rows[i]))

\* margin_utilization, a percentage.
MarginUtilization(total_margin) ==
    IF total_margin > 0
    THEN Rat(total_margin * 100, total_margin + AvailableMargin)
    ELSE RInt(0)

PortfolioStatus(margin_utilization) ==
    IF RLess(margin_utilization, RInt(MarginCallPct))
    THEN "Healthy" ELSE "Margin Call Risk"

RECURSIVE MaxAbsPnl(_, _)
MaxAbsPnl(positions, i) ==
    IF i > Len(positions) THEN 0
    ELSE LET rest == MaxAbsPnl(positions, i + 1)
             mine == Abs(positions[i].unrealized_pnl)
         IN  IF mine > rest THEN mine ELSE rest

PnlTrend(total) ==
    IF total > 0 THEN "Positive" ELSE IF total < 0 THEN "Negative" ELSE "Neutral"

PositionTrackerResponse(st, vessel_name) ==
    LET vessel_rows == VesselQuery(st, vessel_name) IN
    IF vessel_rows = <<>>
    THEN [kind |-> "error", error |-> "vessel_not_found"]
    ELSE
      LET vessel == vessel_rows[1]
          rows == PositionsQuery(st, vessel.vessel_id)
          acc == TrackLoop(rows, 1,
                    [positions |-> <<>>, total_unrealized_pnl |-> 0,
                     total_margin |-> 0])
          util == MarginUtilization(acc.total_margin)
      IN  [kind |-> "ok",
           vessel_id |-> vessel.vessel_id,
           total_positions |-> Len(acc.positions),
           total_unrealized_pnl |-> RoundHalfEven(acc.total_unrealized_pnl, 10),
           total_margin_requirement |-> acc.total_margin * 100,
           margin_utilization |-> RoundHalfEven(util[1] * 10, util[2]),
           status |-> PortfolioStatus(util),
           open_positions |-> acc.positions,
           largest_position |-> MaxAbsPnl(acc.positions, 1),
           pnl_trend |-> PnlTrend(acc.total_unrealized_pnl)]

PositionTrackerQueries(st, vessel_name) ==
    IF VesselQuery(st, vessel_name) = <<>>
    THEN <<"vessel_query">> ELSE <<"vessel_query", "positions_query">>

futures_position_tracker(vessel_name) ==
    /\ store.rows_for = "futures_position_tracker"
    /\ request' = [tool |-> "futures_position_tracker",
                   vessel_name |-> vessel_name]
    /\ LET issued == PositionTrackerQueries(store, vessel_name)
       IN  /\ response' \in Answers(store, issued,
                        {PositionTrackerResponse(store, vessel_name)})
           /\ queries' = QueriesSent(store, issued)
    /\ UNCHANGED <<store, tasks>>

KnownVessel(capacity) ==
    [vessel_id |-> 1, vessel_name |-> "Pacific Hunter",
     capacity_tons |-> capacity]

PositionStores ==
    { [rows_for |-> "futures_position_tracker", failing_query |-> 0,
       vessels |-> <<KnownVessel(Some(100))>>,
       positions |-> WithIds(f) \o OtherPositions] :
        f \in UNION { [1..n -> PositionRows] : n \in 0..MaxPositions } }

InitPositions ==
    /\ store \in PositionStores
    /\ request = NoRequest
    /\ response = NoResponse
    /\ queries = <<>>
    /\ tasks = NoTasks

NextPositions == \E v \in VesselNames : futures_position_tracker(v)

-----------------------------------------------------------------------------
(* futures_hedge_advisor *)

CatchTons == {1, 20, 100, 120}
Capacities == {None, Some(100)}
HedgePrices == {2400, 2600}
HedgeContractSizes == {25, 50}
SpotPrices == {2400, 2500}

\* contracts_query: the contracts of the target month that are active and
\* whose latest settle price is not NULL, dearest first (a stable sort).
ContractMatches(c, target_month) ==
    /\ c.delivery_month = target_month
    /\ c.status = "active"
    /\ ~IsNone(c.current_price)

RECURSIVE InsertByPriceDesc(_, _)
InsertByPriceDesc(sorted, c) ==
    IF sorted = <<>> THEN <<c>>
    ELSE IF Val(c.current_price) > Val(Head(sorted).current_price)
         THEN <<c>> \o sorted
         ELSE <<Head(sorted)>> \o InsertByPriceDesc(Tail(sorted), c)

RECURSIVE SortByPriceDesc(_, _)
SortByPriceDesc(rows, i) ==
    IF i = 0 THEN <<>>
    ELSE InsertByPriceDesc(SortByPriceDesc(rows, i - 1), rows[i])

ContractsQuery(st, target_month) ==
    LET hits == SelectSeq(st.contracts,
                          LAMBDA c : ContractMatches(c, target_month))
    IN  SortByPriceDesc(hits, Len(hits))

RECURSIVE SumSeq(_, _)
SumSeq(xs, i) == IF i = 0 THEN 0 ELSE xs[i] + SumSeq(xs, i - 1)

\* spot_query: SELECT AVG(price_per_lb) ... always one row, whose value is
\* NULL when no grade-A price of the last 7 days exists.
SpotQuery(st) ==
    IF st.spot_prices = <<>>
    THEN << [avg_spot_price |-> None] >>
    ELSE << [avg_spot_price |->
                Some(Rat(SumSeq(st.spot_prices, Len(st.spot_prices)),
                         Len(st.spot_prices)))] >>

DefaultSpotPrice == 2500

\* avg_spot_price = rows[0]["avg_spot_price"] if rows else 2.50
AvgSpotPrice(spot_rows) ==
    IF spot_rows # <<>> THEN spot_rows[1].avg_spot_price
    ELSE Some(RInt(DefaultSpotPrice))

\* max(rows, key=current_price): the first row with the highest price.
BestContract(rows) ==
    LET top == CHOOSE i \in 1..Len(rows) :
                /\ \A k \in 1..Len(rows) :
                     Val(rows[k].current_price) <= Val(rows[i].current_price)
                /\ \A k \in 1..(i - 1) :
                     Val(rows[k].current_price) < Val(rows[i].current_price)
    IN  rows[top]

\* hedge_ratios, in percent.
hedge_ratios == <<50, 75, 90>>

\* The hedge taken on the share left open, ratio for 1 - ratio: C17 tells
\* it from HedgeAmountLbs.
HedgeAmountLbs_OpenShare(total_catch_lbs, ratio_pct) ==
    (total_catch_lbs * (100 - ratio_pct)) \div 100

\* hedge_amount_lbs = total_catch_lbs * ratio (whole: total_catch_lbs is a
\* multiple of 2000).
HedgeAmountLbs(total_catch_lbs, ratio_pct) ==
    (total_catch_lbs * ratio_pct) \div 100

\* contracts_needed before it is reported.
ContractsNeeded(hedge_amount_lbs, contract_size_tons) ==
    Rat(hedge_amount_lbs, contract_size_tons * LbsPerTon)

\* round(x, 2) in hundredths.  Python rounds the binary double, so where
\* the exact quotient lies halfway between two hundredths either neighbour
\* can come out, depending on the double nearest to it.
Round2(x) ==
    LET lo == (100 * x[1]) \div x[2]
    IN  { r \in {lo, lo + 1} : 2 * Abs(100 * x[1] - r * x[2]) <= x[2] }

\* Contracts rounded to whole contracts: C5 and C6 tell it from Reported.
Reported_WholeContracts(x) == { 100 * RoundHalfEven(x[1], x[2]) }

\* The values "contracts_needed" can be reported with.
Reported(x) == Round2(x)

\* One pass of `for ratio in hedge_ratios`, given the reported
\* contracts_needed.
HedgeScenario(ratio_pct, total_catch_lbs, best, reported) ==
    LET hedge_amount_lbs == HedgeAmountLbs(total_catch_lbs, ratio_pct)
        hedged_revenue == hedge_amount_lbs * Val(best.current_price)
        unhedged_lbs == total_catch_lbs - hedge_amount_lbs
        notional_value == hedge_amount_lbs * Val(best.current_price)
    IN  [hedge_ratio |-> ratio_pct,
         hedge_amount_tons |-> Rat(hedge_amount_lbs, LbsPerTon),
         contracts_needed |-> reported,
         guaranteed_revenue |-> RoundHalfEven(hedged_revenue, 1000),
         unhedged_exposure_tons |-> Rat(unhedged_lbs, LbsPerTon),
         margin_requirement |-> RoundHalfEven(notional_value, 10000),
         hedge_price |-> Val(best.current_price)]

\* The lists hedging_scenarios can be: one scenario per ratio, in order.
RECURSIVE HedgingScenarios(_, _, _)
HedgingScenarios(n, total_catch_lbs, best) ==
    IF n = 0 THEN { <<>> }
    ELSE { Append(front, HedgeScenario(hedge_ratios[n], total_catch_lbs,
                                       best, r)) :
             front \in HedgingScenarios(n - 1, total_catch_lbs, best),
             r \in Reported(ContractsNeeded(
                      HedgeAmountLbs(total_catch_lbs, hedge_ratios[n]),
                      best.contract_size_tons)) }

\* price_scenarios: market prices in mils, as rationals.
PriceScenarios(avg_spot_price) ==
    << [market_price |-> Some(RInt(2000)), scenario |-> "Price Crash"],
       [market_price |-> avg_spot_price, scenario |-> "Current Market"],
       [market_price |-> Some(RInt(3500)), scenario |-> "Price Surge"] >>

\* One pass of `for price_scenario in price_scenarios`; money in dollars.
RiskEntry(ps, total_catch_lbs, best) ==
    LET price == Val(ps.market_price)
        unhedged_revenue == RMul(RInt(total_catch_lbs), price)
        hedged_portion ==
            RInt(((total_catch_lbs * 75) \div 100) * Val(best.current_price))
        unhedged_portion == RMul(RInt((total_catch_lbs * 25) \div 100), price)
        hedged_total == RAdd(hedged_portion, unhedged_portion)
        protection == RSub(hedged_total, unhedged_revenue)
    IN  [scenario |-> ps.scenario,
         market_price |-> RoundHalfEven(price[1], price[2] * 10),
         unhedged_revenue |->
            RoundHalfEven(unhedged_revenue[1], unhedged_revenue[2] * 1000),
         hedged_revenue_75pct |->
            RoundHalfEven(hedged_total[1], hedged_total[2] * 1000),
         protection_value |->
            RoundHalfEven(protection[1], protection[2] * 1000)]

\* A catch equal to the capacity rejected too: C7 tells it from
\* ExceedsCapacity.
ExceedsCapacity_OrEqual(expected_catch_tons, vessel) ==
    expected_catch_tons >= Val(vessel.capacity_tons)

\* expected_catch_tons > vessel["capacity_tons"]
ExceedsCapacity(expected_catch_tons, vessel) ==
    expected_catch_tons > Val(vessel.capacity_tons)

\* The run of the handler: the queries it sends and the responses it can
\* return.
HedgeAdvisorRun(st, vessel_name, expected_catch_tons, target_month) ==
    LET vessel_rows == VesselQuery(st, vessel_name) IN
    IF vessel_rows = <<>>
    THEN [queries |-> <<"vessel_query">>,
          responses |-> {[kind |-> "error", error |-> "vessel_not_found"]}]
    ELSE LET vessel == vessel_rows[1] IN
    IF IsNone(vessel.capacity_tons)
    THEN \* float > None
         [queries |-> <<"vessel_query">>,
          responses |-> {ExceptionResponse("TypeError")}]
    ELSE
    IF ExceedsCapacity(expected_catch_tons, vessel)
    THEN [queries |-> <<"vessel_query">>,
          responses |-> {[kind |-> "error", error |-> "capacity_exceeded",
                          expected_catch_tons |-> expected_catch_tons,
                          capacity_tons |-> Val(vessel.capacity_tons)]}]
    ELSE LET contract_rows == ContractsQuery(st, target_month) IN
    IF contract_rows = <<>>
    THEN [queries |-> <<"vessel_query", "contracts_query">>,
          responses |-> {[kind |-> "error", error |-> "no_active_contracts"]}]
    ELSE
      LET avg_spot_price == AvgSpotPrice(SpotQuery(st))
          best == BestContract(contract_rows)
          total_catch_lbs == expected_catch_tons * LbsPerTon
          all == <<"vessel_query", "contracts_query", "spot_query">>
      IN  IF IsNone(avg_spot_price)
          THEN \* total_catch_lbs * None in the risk analysis
               [queries |-> all,
                responses |-> {ExceptionResponse("TypeError")}]
          ELSE
            [queries |-> all,
             responses |->
               { [kind |-> "ok",
                  expected_catch_tons |-> expected_catch_tons,
                  current_spot_average |->
                     RoundHalfEven(Val(avg_spot_price)[1],
                                   Val(avg_spot_price)[2]),
                  best_futures_price |-> Val(best.current_price),
                  recommended_contract |-> best.symbol,
                  hedging_scenarios |-> hs,
                  recommended_contracts |-> hs[2].contracts_needed,
                  risk_analysis |->
                     [i \in 1..3 |->
                        RiskEntry(PriceScenarios(avg_spot_price)[i],
                                  total_catch_lbs, best)]] :
                 hs \in HedgingScenarios(Len(hedge_ratios),
                                         total_catch_lbs, best) }]

TargetMonths == {"2025-03"}

futures_hedge_advisor(vessel_name, expected_catch_tons, target_month) ==
    /\ store.rows_for = "futures_hedge_advisor"
    /\ LET run == HedgeAdvisorRun(store, vessel_name, expected_catch_tons,
                                  target_month)
       IN  /\ response' \in Answers(store, run.queries, run.responses)
           /\ queries' = QueriesSent(store, run.queries)
    /\ request' = [tool |-> "futures_hedge_advisor",
                   vessel_name |-> vessel_name,
                   expected_catch_tons |-> expected_catch_tons,
                   target_month |-> target_month]
    /\ UNCHANGED <<store, tasks>>

MaxContracts == 2      \* contracts of the target month the store holds
MaxSpotRows == 2       \* grade-A spot prices of the last 7 days

ContractSymbols == <<"SQ-MAR25-MNT", "SQ-MAR25-CASH", "SQ-MAR25-SBA">>

\* Contracts the query must leave out: another month, not active, no price.
OtherContracts ==
    << [symbol |-> "SQ-JUN25-MNT", delivery_month |-> "2025-06",
        status |-> "active", contract_size_tons |-> 50,
        current_price |-> Some(2900)],
       [symbol |-> "SQ-MAR25-OLD", delivery_month |-> "2025-03",
        status |-> "expired", contract_size_tons |-> 50,
        current_price |-> Some(2900)],
       [symbol |-> "SQ-MAR25-NEW", delivery_month |-> "2025-03",
        status |-> "active", contract_size_tons |-> 50,
        current_price |-> None] >>

MarchContracts(f) ==
    [i \in DOMAIN f |->
        [symbol |-> ContractSymbols[i], delivery_month |-> "2025-03",
         status |-> "active", contract_size_tons |-> f[i].contract_size_tons,
         current_price |-> Some(f[i].current_price)]]

HedgeStores ==
    { [rows_for |-> "futures_hedge_advisor", failing_query |-> 0,
       vessels |-> <<KnownVessel(cap)>>,
       contracts |-> OtherContracts \o MarchContracts(f),
       spot_prices |-> sp] :
        cap \in Capacities,
        f \in UNION { [1..n -> [contract_size_tons : HedgeContractSizes,
                                current_price : HedgePrices]] :
                        n \in 0..MaxContracts },
        sp \in UNION { [1..n -> SpotPrices] : n \in 0..MaxSpotRows } }

InitHedge ==
    /\ store \in HedgeStores
    /\ request = NoRequest
    /\ response = NoResponse
    /\ queries = <<>>
    /\ tasks = NoTasks

NextHedge ==
    \E v \in VesselNames, t \in CatchTons, m \in TargetMonths :
        futures_hedge_advisor(v, t, m)

-----------------------------------------------------------------------------
(* futures_basis_analysis *)

PortCodes == {"MNT", "XXX"}
BasisSymbols == {"SQ-MAR25-MNT", "SQ-NONE"}
FuturesPrices == {None, Some(2005), Some(2100), Some(2250)}
SpotRowSets == {<<>>, <<[price_per_lb |-> 0]>>, <<[price_per_lb |-> 2000]>>}
\* Dates are day numbers (date.toordinal less a fixed offset).
ExpiryDates == {95, 100, 130, 131}
Todays == {100, 101}
HistFutures == {1900, 2080, 2100, 2120}
HistSpots == {2000}

MaxHistory == 3        \* aligned futures/spot dates of the last 30 days

ExpectedBasisAtExpiry == 20
CalendarBasis == 10
CalendarDays == 30

PortQuery(st, port_code) ==
    SelectSeq(st.ports, LAMBDA p : p.port_code = port_code)

\* contract_query: the contract with, by LEFT JOIN, its latest settle price.
BasisContractQuery(st, symbol) ==
    SelectSeq(st.contracts, LAMBDA c : c.symbol = symbol)

\* spot_query: the latest grade-A price at the port in the last 30 days
\* (LIMIT 1).
BasisSpotQuery(st, port_code) ==
    IF \E i \in 1..Len(st.ports) : st.ports[i].port_code = port_code
    THEN st.spot_rows ELSE <<>>

\* historical_query: one row per aligned date, basis computed by the query.
HistoricalQuery(st, symbol, port_code) ==
    [i \in 1..Len(st.history) |->
        [futures_price |-> st.history[i].futures_price,
         spot_price |-> st.history[i].spot_price,
         basis |-> st.history[i].futures_price - st.history[i].spot_price]]

RECURSIVE SumBasis(_, _)
SumBasis(rows, i) == IF i = 0 THEN 0 ELSE rows[i].basis + SumBasis(rows, i - 1)

RECURSIVE SumSqDev(_, _, _)
\* sum of (n * b - S)^2 over the first i rows: n^2 times the sum of the
\* squared deviations from the mean S / n.
SumSqDev(rows, i, S) ==
    IF i = 0 THEN 0
    ELSE (Len(rows) * rows[i].basis - S) * (Len(rows) * rows[i].basis - S)
            + SumSqDev(rows, i - 1, S)

MaxBasis(rows) ==
    CHOOSE b \in { rows[i].basis : i \in 1..Len(rows) } :
        \A i \in 1..Len(rows) : rows[i].basis <= b

MinBasis(rows) ==
    CHOOSE b \in { rows[i].basis : i \in 1..Len(rows) } :
        \A i \in 1..Len(rows) : rows[i].basis >= b

\* BasisStatistics with the statistics of an empty history left at 0
\* rather than set to the current basis: C15 tells it from BasisStatistics.
BasisStatistics_ZeroWhenEmpty(rows, basis) ==
    IF rows # <<>>
    THEN LET n == Len(rows)
             S == SumBasis(rows, n)
         IN  [avg_basis |-> Rat(S, n),
              max_basis |-> MaxBasis(rows),
              min_basis |-> MinBasis(rows),
              variance |-> Rat(SumSqDev(rows, n, S), n * n * n)]
    ELSE [avg_basis |-> RInt(0), max_basis |-> 0,
          min_basis |-> 0, variance |-> RInt(0)]

\* The basis statistics.  The mean is the rational avg; the population
\* standard deviation sqrt(var) is kept as its square var, a rational.
BasisStatistics(rows, basis) ==
    IF rows # <<>>
    THEN LET n == Len(rows)
             S == SumBasis(rows, n)
         IN  [avg_basis |-> Rat(S, n),
              max_basis |-> MaxBasis(rows),
              min_basis |-> MinBasis(rows),
              variance |-> Rat(SumSqDev(rows, n, S), n * n * n)]
    ELSE [avg_basis |-> RInt(basis), max_basis |-> basis,
          min_basis |-> basis, variance |-> RInt(0)]

\* x > sqrt(v) for rationals x and v >= 0.
AboveRoot(x, v) == x[1] > 0 /\ RLess(v, RMul(x, x))

\* SellCondition with the comparison allowing equality (basis >=
\* avg_basis + basis_volatility): C30 tells it from SellCondition.
SellCondition_OrEqual(basis, stats) ==
    LET x == RSub(RInt(basis), stats.avg_basis)
    IN  x[1] >= 0 /\ RLeq(stats.variance, RMul(x, x))

\* basis > avg_basis + basis_volatility
SellCondition(basis, stats) ==
    AboveRoot(RSub(RInt(basis), stats.avg_basis), stats.variance)

\* The second comparison turned around (basis > avg_basis -
\* basis_volatility): C4 tells it from BuyCondition.
BuyCondition_Reversed(basis, stats) ==
    LET x == RSub(stats.avg_basis, RInt(basis))
    IN  ~(x[1] >= 0 /\ RLeq(stats.variance, RMul(x, x)))

\* basis < avg_basis - basis_volatility
BuyCondition(basis, stats) ==
    AboveRoot(RSub(stats.avg_basis, RInt(basis)), stats.variance)

\* abs(basis) < 0.01 and days_to_expiry > 30
CalendarCondition(basis, days_to_expiry) ==
    Abs(basis) < CalendarBasis /\ days_to_expiry > CalendarDays

\* ArbitrageOpportunities with the three tests chained (if / elif / elif),
\* so that a signal that fired keeps the later ones from firing: C14 tells
\* it from ArbitrageOpportunities.
ArbitrageOpportunities_FirstOnly(basis, stats, days_to_expiry) ==
    IF SellCondition(basis, stats) THEN <<"Sell Futures, Buy Spot">>
    ELSE IF BuyCondition(basis, stats) THEN <<"Buy Futures, Sell Spot">>
    ELSE IF CalendarCondition(basis, days_to_expiry)
         THEN <<"Calendar Spread">>
    ELSE <<>>

ArbitrageOpportunities(basis, stats, days_to_expiry) ==
    (IF SellCondition(basis, stats)
        THEN <<"Sell Futures, Buy Spot">> ELSE <<>>)
    \o (IF BuyCondition(basis, stats)
        THEN <<"Buy Futures, Sell Spot">> ELSE <<>>)
    \o (IF CalendarCondition(basis, days_to_expiry)
        THEN <<"Calendar Spread">> ELSE <<>>)

\* The list left empty when nothing fired: C13 tells it from NoOpportunity.
NoOpportunity_Empty == <<>>

NoOpportunity == <<"No clear arbitrage opportunities identified">>

\* The nearest whole number to sqrt(v), v a rational >= 0: the standard
\* deviation as printed, in mils.
RootRounded(v) ==
    CHOOSE r \in 0..1000 :
        /\ (2 * r - 1) * (2 * r - 1) * v[2] <= 4 * v[1] \/ r = 0
        /\ 4 * v[1] < (2 * r + 1) * (2 * r + 1) * v[2]

Max(a, b) == IF a > b THEN a ELSE b

\* days_to_expiry with an expired contract's days held at 0: C16 tells it
\* from DaysToExpiryOf.
DaysToExpiryOf_Clamped(contract, today) ==
    Max(contract.expiry_date - today, 0)

\* days_to_expiry = (expiry_date - date.today()).days
DaysToExpiryOf(contract, today) == contract.expiry_date - today

BasisAnalysisRun(st, port_code, contract_symbol) ==
    LET port_rows == PortQuery(st, port_code) IN
    IF port_rows = <<>>
    THEN [queries |-> <<"port_query">>,
          response |-> [kind |-> "error", error |-> "port_not_found"]]
    ELSE LET contract_rows == BasisContractQuery(st, contract_symbol) IN
    IF contract_rows = <<>>
    THEN [queries |-> <<"port_query", "contract_query">>,
          response |-> [kind |-> "error", error |-> "contract_not_found"]]
    ELSE LET contract == contract_rows[1]
             spot_rows == BasisSpotQuery(st, port_code) IN
    IF spot_rows = <<>>
    THEN [queries |-> <<"port_query", "contract_query", "spot_query">>,
          response |-> [kind |-> "error", error |-> "no_spot_data"]]
    ELSE LET current_spot == spot_rows[1] IN
    IF IsNone(contract.futures_price)
    THEN \* None - price_per_lb
         [queries |-> <<"port_query", "contract_query", "spot_query">>,
          response |-> ExceptionResponse("TypeError")]
    ELSE LET basis == Val(contract.futures_price) - current_spot.price_per_lb IN
    IF current_spot.price_per_lb = 0
    THEN \* basis / 0
         [queries |-> <<"port_query", "contract_query", "spot_query">>,
          response |-> ExceptionResponse("ZeroDivisionError")]
    ELSE
      LET basis_percentage == Rat(basis * 100, current_spot.price_per_lb)
          rows == HistoricalQuery(st, contract_symbol, port_code)
          stats == BasisStatistics(rows, basis)
          days_to_expiry == DaysToExpiryOf(contract, st.today)
          expected_convergence == basis - ExpectedBasisAtExpiry
          found == ArbitrageOpportunities(basis, stats, days_to_expiry)
      IN  [queries |-> <<"port_query", "contract_query", "spot_query",
                         "historical_query">>,
           response |->
             [kind |-> "ok",
              spot_price |-> current_spot.price_per_lb,
              futures_price |-> Val(contract.futures_price),
              basis |-> basis,
              basis_percentage |->
                 RoundHalfEven(basis_percentage[1] * 10, basis_percentage[2]),
              avg_basis |->
                 RoundHalfEven(stats.avg_basis[1], stats.avg_basis[2]),
              max_basis |-> stats.max_basis,
              min_basis |-> stats.min_basis,
              volatility |-> RootRounded(stats.variance),
              days_to_expiry |-> days_to_expiry,
              expected_convergence |-> expected_convergence,
              convergence_rate |->
                 RoundHalfEven(expected_convergence * 10,
                               Max(days_to_expiry, 1)),
              arbitrage_opportunities |->
                 IF found # <<>> THEN found ELSE NoOpportunity,
              historical_data |-> SubSeq(rows, 1, IF Len(rows) < 10
                                                  THEN Len(rows) ELSE 10)]]

futures_basis_analysis(port_code, contract_symbol) ==
    /\ store.rows_for = "futures_basis_analysis"
    /\ LET run == BasisAnalysisRun(store, port_code, contract_symbol)
       IN  /\ response' \in Answers(store, run.queries, {run.response})
           /\ queries' = QueriesSent(store, run.queries)
    /\ request' = [tool |-> "futures_basis_analysis",
                   port_code |-> port_code,
                   contract_symbol |-> contract_symbol]
    /\ UNCHANGED <<store, tasks>>

BasisStores ==
    { [rows_for |-> "futures_basis_analysis",
       ports |-> << [port_id |-> 1, port_code |-> "MNT"] >>,
       today |-> today, failing_query |-> 0,
       contracts |-> << [symbol |-> "SQ-MAR25-MNT", futures_price |-> fp,
                         expiry_date |-> expiry] >>,
       spot_rows |-> sr,
       history |-> h] :
        fp \in FuturesPrices, expiry \in ExpiryDates, today \in Todays,
        sr \in SpotRowSets,
        h \in UNION { [1..n -> [futures_price : HistFutures,
                                spot_price : HistSpots]] :
                        n \in 0..MaxHistory } }

InitBasis ==
    /\ store \in BasisStores
    /\ request = NoRequest
    /\ response = NoResponse
    /\ queries = <<>>
    /\ tasks = NoTasks

NextBasis ==
    \E p \in PortCodes, c \in BasisSymbols : futures_basis_analysis(p, c)

-----------------------------------------------------------------------------
(* futures_market_data *)

MarketSymbols == {"SQ-MAR25-MNT", "SQ-NONE"}
SettlePrices == {0, 1000, 2000, 4000}
Windows == {1, 30}

MaxPrices == 3         \* price rows of the contract, one per day

\* contract_query of futures_market_data: the contract by its symbol.
MarketContractQuery(st, symbol) ==
    SelectSeq(st.contracts, LAMBDA c : c.symbol = symbol)

\* price_query: the contract's rows of the last `days` days, newest first.
PriceQuery(st, contract_id, days) ==
    SelectSeq(st.prices,
              LAMBDA p : p.contract_id = contract_id /\ p.days_ago <= days)

\* [p["settle_price"] for p in prices if p["settle_price"]]
RECURSIVE SettleOf(_, _)
SettleOf(prices, i) ==
    IF i > Len(prices) THEN <<>>
    ELSE (IF prices[i].settle_price # 0
          THEN <<prices[i].settle_price>> ELSE <<>>)
         \o SettleOf(prices, i + 1)

MaxOf(xs) == CHOOSE m \in { xs[i] : i \in 1..Len(xs) } :
                \A i \in 1..Len(xs) : xs[i] <= m
MinOf(xs) == CHOOSE m \in { xs[i] : i \in 1..Len(xs) } :
                \A i \in 1..Len(xs) : xs[i] >= m

\* price_changes: (settle[i] - settle[i+1]) / settle[i+1]
PriceChanges(settle) ==
    [i \in 1..(Len(settle) - 1) |->
        Rat(settle[i] - settle[i + 1], settle[i + 1])]

RECURSIVE RSum(_, _)
RSum(xs, i) == IF i = 0 THEN RInt(0) ELSE RAdd(xs[i], RSum(xs, i - 1))

\* PopVariance with the number of prices (one more than the number of
\* returns) for divisor: C12 tells it from PopVariance.
PopVariance_OverPrices(xs) ==
    LET n == Len(xs)
        mean == RDiv(RSum(xs, n), RInt(n))
        devsq == [i \in 1..n |-> RMul(RSub(xs[i], mean), RSub(xs[i], mean))]
    IN  RDiv(RSum(devsq, n), RInt(n + 1))

\* The population variance of a non-empty sequence of rationals.
PopVariance(xs) ==
    LET n == Len(xs)
        mean == RDiv(RSum(xs, n), RInt(n))
        devsq == [i \in 1..n |-> RMul(RSub(xs[i], mean), RSub(xs[i], mean))]
    IN  RDiv(RSum(devsq, n), RInt(n))

\* The statistics of the usable settle prices; None where settle_prices[0]
\* raises IndexError.  volatility is kept as its square (in percent
\* squared): the tool prints its root with one decimal.
PriceStatistics(settle) ==
    IF Len(settle) > 1
    THEN Some([price_change |-> settle[1] - settle[2],
               pct_change |-> Rat((settle[1] - settle[2]) * 100, settle[2]),
               high_price |-> MaxOf(settle),
               low_price |-> MinOf(settle),
               avg_price |-> Rat(SumSeq(settle, Len(settle)), Len(settle)),
               volatility_sq |->
                  RMul(RInt(10000), PopVariance(PriceChanges(settle)))])
    ELSE IF settle = <<>> THEN None
    ELSE Some([price_change |-> 0, pct_change |-> RInt(0),
               high_price |-> settle[1], low_price |-> settle[1],
               avg_price |-> RInt(settle[1]),
               volatility_sq |-> RInt(0)])

MarketDataRun(st, contract_symbol, days) ==
    LET contract_rows == MarketContractQuery(st, contract_symbol) IN
    IF contract_rows = <<>>
    THEN [queries |-> <<"contract_query">>,
          response |-> [kind |-> "error", error |-> "contract_not_found"]]
    ELSE LET contract == contract_rows[1]
             prices == PriceQuery(st, contract.contract_id, days) IN
    IF prices = <<>>
    THEN [queries |-> <<"contract_query", "price_query">>,
          response |-> [kind |-> "error", error |-> "no_price_data"]]
    ELSE LET latest == prices[1]
             stats == PriceStatistics(SettleOf(prices, 1)) IN
    IF IsNone(stats)
    THEN [queries |-> <<"contract_query", "price_query">>,
          response |-> ExceptionResponse("IndexError")]
    ELSE
      [queries |-> <<"contract_query", "price_query">>,
       response |->
         [kind |-> "ok",
          days_to_expiry |-> DaysToExpiryOf(contract, st.today),
          latest_price |-> latest.settle_price,
          price_change |-> Val(stats).price_change,
          pct_change |-> RoundHalfEven(Val(stats).pct_change[1] * 10,
                                       Val(stats).pct_change[2]),
          high_price |-> Val(stats).high_price,
          low_price |-> Val(stats).low_price,
          avg_price |-> RoundHalfEven(Val(stats).avg_price[1],
                                      Val(stats).avg_price[2]),
          volatility_sq |-> Val(stats).volatility_sq,
          price_history |-> [i \in 1..Len(prices) |-> prices[i].settle_price]]]

futures_market_data(contract_symbol, days) ==
    /\ store.rows_for = "futures_market_data"
    /\ LET run == MarketDataRun(store, contract_symbol, days)
       IN  /\ response' \in Answers(store, run.queries, {run.response})
           /\ queries' = QueriesSent(store, run.queries)
    /\ request' = [tool |-> "futures_market_data",
                   contract_symbol |-> contract_symbol, days |-> days]
    /\ UNCHANGED <<store, tasks>>

\* Rows the query must leave out: an old row, and another contract's row.
OtherPrices ==
    << [contract_id |-> 1, days_ago |-> 400, settle_price |-> 2000],
       [contract_id |-> 2, days_ago |-> 0, settle_price |-> 2000] >>

MarketStores ==
    { [rows_for |-> "futures_market_data",
       today |-> today, failing_query |-> 0,
       contracts |-> << [symbol |-> "SQ-MAR25-MNT", contract_id |-> 1,
                         expiry_date |-> expiry] >>,
       prices |-> [i \in DOMAIN f |->
                     [contract_id |-> 1, days_ago |-> i - 1,
                      settle_price |-> f[i]]] \o OtherPrices] :
        expiry \in ExpiryDates, today \in Todays,
        f \in UNION { [1..n -> SettlePrices] : n \in 0..MaxPrices } }

InitMarket ==
    /\ store \in MarketStores
    /\ request = NoRequest
    /\ response = NoResponse
    /\ queries = <<>>
    /\ tasks = NoTasks

NextMarket ==
    \E c \in MarketSymbols, d \in Windows : futures_market_data(c, d)

-----------------------------------------------------------------------------
(* The scenario computation of futures_hedge_advisor as a function of    *)
(* the hedge ratio: the body of `for ratio in hedge_ratios` applied to a *)
(* ratio r and to 2r, catch and contract held fixed.                     *)

\* Ratios r, in percent, with r and 2r both at most 100%.
RatioPcts == { r \in 1..100 : 2 * r <= 100 }

ScenarioStores ==
    { [rows_for |-> "hedge_scenario",
       total_catch_lbs |-> t * LbsPerTon,
       best |-> [symbol |-> ContractSymbols[1], delivery_month |-> "2025-03",
                 status |-> "active", contract_size_tons |-> size,
                 current_price |-> Some(price)]] :
        t \in CatchTons, size \in HedgeContractSizes, price \in HedgePrices }

ScenariosAt(st, ratio_pct) ==
    { HedgeScenario(ratio_pct, st.total_catch_lbs, st.best, r) :
        r \in Reported(ContractsNeeded(
                 HedgeAmountLbs(st.total_catch_lbs, ratio_pct),
                 st.best.contract_size_tons)) }

hedge_scenario_pair(ratio_pct) ==
    /\ store.rows_for = "hedge_scenario"
    /\ \E one \in ScenariosAt(store, ratio_pct),
          two \in ScenariosAt(store, 2 * ratio_pct) :
            response' = [kind |-> "scenarios", at_r |-> one, at_2r |-> two]
    /\ request' = [tool |-> "hedge_scenario", ratio_pct |-> ratio_pct]
    /\ queries' = <<>>
    /\ UNCHANGED <<store, tasks>>

InitScenario ==
    /\ store \in ScenarioStores
    /\ request = NoRequest
    /\ response = NoResponse
    /\ queries = <<>>
    /\ tasks = NoTasks

NextScenario == \E r \in RatioPcts : hedge_scenario_pair(r)

SpecScenario == InitScenario /\ [][NextScenario]_vars

-----------------------------------------------------------------------------
(* query_data and DatabaseManager.execute_query                            *)
(*                                                                         *)
(* A query text is a sequence of tokens; " " stands for white space.       *)

MaxPortRows == 2       \* rows of the ports table

\* str.upper on the tokens that have lower-case letters.
Upper(tok) ==
    CASE tok = "select" -> "SELECT"
      [] tok = "from" -> "FROM"
      [] tok = "ports" -> "PORTS"
      [] tok = "port_name" -> "PORT_NAME"
      [] tok = "'Limit Bay'" -> "'LIMIT BAY'"
      [] tok = "all" -> "ALL"
      [] OTHER -> tok

RECURSIVE StripLeft(_)
StripLeft(q) ==
    IF q # <<>> /\ Head(q) = " " THEN StripLeft(Tail(q)) ELSE q

RECURSIVE StripRight(_)
StripRight(q) ==
    IF q # <<>> /\ q[Len(q)] = " "
    THEN StripRight(SubSeq(q, 1, Len(q) - 1)) ELSE q

\* query.strip().upper()
StripUpper(q) ==
    LET t == StripRight(StripLeft(q)) IN [i \in 1..Len(t) |-> Upper(t[i])]

\* StartsWithSelect letting every text through: C22 tells it from
\* StartsWithSelect.
StartsWithSelect_Anything(q) == TRUE

\* .startswith("SELECT")
StartsWithSelect(q) == StripUpper(q) # <<>> /\ StripUpper(q)[1] = "SELECT"

\* "LIMIT" in query_stripped: the tokens whose upper-case text holds the
\* letters LIMIT.
HoldsLimit(tok) == tok \in {"LIMIT", "'LIMIT BAY'"}

LimitInQuery(q) ==
    \E i \in 1..Len(StripUpper(q)) : HoldsLimit(StripUpper(q)[i])

\* f"{limit}" and the number a LIMIT clause reads.
LimitText(n) == CASE n = 1 -> "1" [] n = 2 -> "2" [] OTHER -> "1000"
LimitNumber(tok) == CASE tok = "1" -> 1 [] tok = "2" -> 2 [] OTHER -> 1000

\* query += f" LIMIT {limit}" unless the text holds LIMIT already.
StatementSent(q, limit) ==
    IF LimitInQuery(q) THEN q ELSE q \o <<" ", "LIMIT", LimitText(limit)>>

\* The database on one statement text: the rows of
\*   SELECT * FROM ports [WHERE port_name = 'Limit Bay'] [LIMIT n]
\* (key words in either case), None for any other text, on which the
\* driver raises: a syntax error, an unknown table, a second statement.
\* The text a quoted literal stands for.
LiteralValue(tok) == IF tok = "'Limit Bay'" THEN "Limit Bay" ELSE tok

FirstRows(rows, n) == SubSeq(rows, 1, IF Len(rows) < n THEN Len(rows) ELSE n)

DatabaseRows(st, text) ==
    LET t == SelectSeq(text, LAMBDA tok : tok # " ")
        k == [i \in 1..Len(t) |-> Upper(t[i])]
        base == Len(k) >= 4 /\ SubSeq(k, 1, 4) = <<"SELECT", "*", "FROM", "PORTS">>
        filtered == Len(k) >= 8
                      /\ SubSeq(k, 5, 7) = <<"WHERE", "PORT_NAME", "=">>
        chosen == IF filtered
                  THEN SelectSeq(st.ports,
                                 LAMBDA p : p.port_name = LiteralValue(t[8]))
                  ELSE st.ports
        rest == IF filtered THEN SubSeq(k, 9, Len(k)) ELSE SubSeq(k, 5, Len(k))
    IN  IF ~base THEN None
        ELSE IF rest = <<>> THEN Some(chosen)
        ELSE IF Len(rest) = 2 /\ rest[1] = "LIMIT" /\ rest[2] \in {"1", "2", "1000"}
             THEN Some(FirstRows(chosen, LimitNumber(rest[2])))
        ELSE None

\* The database after one statement text reached it: DROP TABLE ports,
\* which SQLite runs outside any transaction, leaves no ports; a SELECT,
\* and a text SQLite refuses whole (a syntax error, a second statement),
\* leave it as it was.
DatabaseAfter(st, text) ==
    LET t == SelectSeq(text, LAMBDA tok : tok # " ")
        k == [i \in 1..Len(t) |-> Upper(t[i])]
    IN  IF Len(k) >= 3 /\ SubSeq(k, 1, 3) = <<"DROP", "TABLE", "PORTS">>
           /\ st.failing_query # 1
        THEN [st EXCEPT !.ports = <<>>]
        ELSE st

\* DatabaseManager.execute_query: the statements it sends, its outcome,
\* rows or an exception, and the database it leaves.
ExecuteQuery(st, q, limit) ==
    IF ~StartsWithSelect(q)
    THEN [sent |-> <<>>, raised |-> Some("ValueError"), rows |-> <<>>,
          after |-> st]
    ELSE LET text == StatementSent(q, limit)
             found == DatabaseRows(st, text)
             after == DatabaseAfter(st, text)
         IN  IF st.failing_query = 1 \/ IsNone(found)
             THEN [sent |-> <<text>>, raised |-> Some("OperationalError"),
                   rows |-> <<>>, after |-> after]
             ELSE [sent |-> <<text>>, raised |-> None, rows |-> Val(found),
                   after |-> after]

QueryDataRun(st, q, limit) ==
    IF ~StartsWithSelect(q)
    THEN [queries |-> <<>>, after |-> st,
          response |-> [kind |-> "error", error |-> "only_select"]]
    ELSE LET result == ExecuteQuery(st, q, limit) IN
         IF ~IsNone(result.raised)
         THEN [queries |-> result.sent, after |-> result.after,
               response |-> ExceptionResponse(Val(result.raised))]
         ELSE [queries |-> result.sent, after |-> result.after,
               response |-> [kind |-> "ok", rows |-> result.rows,
                             row_count |-> Len(result.rows),
                             query |-> result.sent[1]]]

query_data(q, limit) ==
    /\ store.rows_for = "query_data"
    /\ LET run == QueryDataRun(store, q, limit)
       IN  /\ response' = run.response
           /\ queries' = run.queries
           /\ store' = run.after
    /\ UNCHANGED tasks
    /\ request' = [tool |-> "query_data", query |-> q, limit |-> limit]

QueryTexts ==
    { <<"SELECT", "*", "FROM", "ports">>,
      <<" ", "select", "*", "from", "ports", " ">>,
      <<"SELECT", "*", "FROM", "ports", "LIMIT", "2">>,
      <<"SELECT", "*", "FROM", "ports", "WHERE", "port_name", "=",
        "'Limit Bay'">>,
      <<"SELECT", "*", "FROM", "nowhere">>,
      <<"SELECT", "*", "FROM", "ports", ";", "DROP", "TABLE", "ports">>,
      <<"DROP", "TABLE", "ports">>,
      <<" ">>,
      <<>> }

Limits == {1, 1000}

PortNames == {"Monterey", "Limit Bay"}

QueryDataStores ==
    { [rows_for |-> "query_data", failing_query |-> k,
       ports |-> [i \in DOMAIN f |-> [port_id |-> i, port_name |-> f[i]]]] :
        k \in {0, 1},
        f \in UNION { [1..n -> PortNames] : n \in 0..MaxPortRows } }

-----------------------------------------------------------------------------
(* squber_howto and DatabaseManager.get_schema *)

\* Python's truth of an optional text: None and "" are false.
TruthyText(x) == ~IsNone(x) /\ Val(x) # ""

RECURSIVE SchemaQueries(_, _)
\* The statements get_schema sends after the list of tables: PRAGMA
\* table_info and SELECT COUNT(*) for each table it keeps.
SchemaQueries(kept, i) ==
    IF i > Len(kept) THEN <<>>
    ELSE <<"table_info", "row_count">> \o SchemaQueries(kept, i + 1)

HowtoRun(st, table_name) ==
    LET kept == SelectSeq(st.tables,
                    LAMBDA t : ~(TruthyText(table_name)
                                    /\ t.name # Val(table_name)))
    IN  [queries |-> <<"tables_query">> \o SchemaQueries(kept, 1),
         response |->
            [kind |-> "ok",
             tables |-> [i \in 1..Len(kept) |-> kept[i].name],
             total_tables |-> Len(kept),
             schema |-> kept]]

squber_howto(table_name) ==
    /\ store.rows_for = "squber_howto"
    /\ LET run == HowtoRun(store, table_name)
       IN  /\ response' \in Answers(store, run.queries, {run.response})
           /\ queries' = QueriesSent(store, run.queries)
    /\ request' = [tool |-> "squber_howto", table_name |-> table_name]
    /\ UNCHANGED <<store, tasks>>

MaxQueries == 5        \* the execute calls one run can make

TableNames == {None, Some(""), Some("ports"), Some("nowhere")}

HowtoStores ==
    { [rows_for |-> "squber_howto", failing_query |-> k,
       tables |-> SubSeq(<< [name |-> "ports", columns |-> 3, row_count |-> n],
                            [name |-> "vessels", columns |-> 5,
                             row_count |-> 0] >>, 1, m)] :
        k \in 0..MaxQueries, n \in 0..MaxPortRows, m \in 0..2 }

-----------------------------------------------------------------------------
(* get_market_report *)

MaxPriceGroups == 2    \* (port, grade) groups price_query returns
MaxSignals == 1        \* rows demand_query returns

\* code.strip() on a piece of port_codes.split(',')
StripCode(piece) ==
    CASE piece = " MNT" -> "MNT" [] piece = "SB " -> "SB" [] OTHER -> piece

\* port_codes is the text split at its commas, None for no argument; the
\* empty text, one empty piece, is false.
HasPortFilter(port_codes) == ~IsNone(port_codes) /\ Val(port_codes) # <<"">>

\* price_query: the groups of the window, of the ports asked for.
ReportPriceQuery(st, port_codes) ==
    IF HasPortFilter(port_codes)
    THEN SelectSeq(st.price_groups,
            LAMBDA g : \E i \in 1..Len(Val(port_codes)) :
                            StripCode(Val(port_codes)[i]) = g.port_code)
    ELSE st.price_groups

\* max(grade_a_ports, key=avg_price): the first of the dearest.
BestPort(rows) ==
    LET top == CHOOSE i \in 1..Len(rows) :
                 /\ \A j \in 1..Len(rows) : rows[j].avg_price <= rows[i].avg_price
                 /\ \A j \in 1..(i - 1) : rows[j].avg_price < rows[i].avg_price
    IN  rows[top]

ReportRecommendations(price_rows, demand_rows) ==
    LET grade_a_ports == SelectSeq(price_rows, LAMBDA r : r.grade = "A")
        positive_signals ==
            SelectSeq(demand_rows, LAMBDA r : r.price_impact = Some("positive"))
    IN  (IF grade_a_ports # <<>>
         THEN << [line |-> "best_grade_a",
                  port_name |-> BestPort(grade_a_ports).port_name,
                  price |-> RoundHalfEven(BestPort(grade_a_ports).avg_price, 10)] >>
         ELSE <<>>)
        \o (IF positive_signals # <<>>
            THEN << [line |-> "outlook_positive",
                     description |-> positive_signals[1].description] >>
            ELSE <<>>)

MarketReportRun(st, days, port_codes) ==
    LET price_rows == ReportPriceQuery(st, port_codes)
    IN  [queries |-> <<"price_query", "reg_query", "demand_query">>,
         response |->
            [kind |-> "ok",
             analysis_period_days |-> days,
             market_prices |-> price_rows,
             active_regulations |-> st.regulations,
             demand_signals |-> st.demand_signals,
             recommendations |->
                ReportRecommendations(price_rows, st.demand_signals),
             price_points |-> Len(price_rows)]]

get_market_report(days, port_codes) ==
    /\ store.rows_for = "get_market_report"
    /\ LET run == MarketReportRun(store, days, port_codes)
       IN  /\ response' \in Answers(store, run.queries, {run.response})
           /\ queries' = QueriesSent(store, run.queries)
    /\ request' = [tool |-> "get_market_report", days |-> days,
                   port_codes |-> port_codes]
    /\ UNCHANGED <<store, tasks>>

ReportDays == {7}

ReportPortCodes ==
    {None, Some(<<"">>), Some(<<"MNT">>), Some(<<" MNT", "SB ">>)}

\* The (port, grade) groups in the order of ORDER BY p.port_code, mp.grade.
GroupKeys ==
    << [port_code |-> "MNT", grade |-> "A"], [port_code |-> "MNT", grade |-> "B"],
       [port_code |-> "MOR", grade |-> "A"], [port_code |-> "MOR", grade |-> "B"] >>

GroupPrices == {2400, 2600}

RECURSIVE Ascending(_)
\* The numbers of a set, smallest first.
Ascending(S) ==
    IF S = {} THEN <<>>
    ELSE LET least == CHOOSE x \in S : \A y \in S : x <= y
         IN  <<least>> \o Ascending(S \ {least})

\* The results price_query can have: some of the groups, each once, in
\* order, each with its average price.
PriceGroupRows ==
    { [i \in 1..Len(Ascending(S)) |->
         [port_code |-> GroupKeys[Ascending(S)[i]].port_code,
          port_name |-> GroupKeys[Ascending(S)[i]].port_code,
          grade |-> GroupKeys[Ascending(S)[i]].grade,
          avg_price |-> price[Ascending(S)[i]]]] :
        S \in { T \in SUBSET (1..Len(GroupKeys)) :
                    Cardinality(T) <= MaxPriceGroups },
        price \in [1..Len(GroupKeys) -> GroupPrices] }

Regulations ==
    << [regulation_type |-> "closure", description |-> Some("Weekend closure")],
       [regulation_type |-> "restriction", description |-> None] >>

DemandSignals ==
    [price_impact : {None, Some("positive"), Some("negative")},
     description : {None, Some("Export demand up")}]

ReportStores ==
    { [rows_for |-> "get_market_report", failing_query |-> 0,
       price_groups |-> g,
       regulations |-> SubSeq(Regulations, 1, r),
       demand_signals |-> d] :
        g \in PriceGroupRows,
        r \in {0, 2},
        d \in UNION { [1..n -> DemandSignals] : n \in 0..MaxSignals } }
    \cup
    { [rows_for |-> "get_market_report", failing_query |-> k,
       price_groups |-> <<>>, regulations |-> Regulations,
       demand_signals |-> <<>>] : k \in 1..MaxQueries }

-----------------------------------------------------------------------------
(* trip_advisor *)

MaxMarkets == 2        \* rows market_query returns (LIMIT 5)
MaxTrips == 2          \* rows fleet_query returns (LIMIT 10)

\* top_areas after one more trip: a dict in insertion order, as a sequence
\* of areas with their pounds.
AddTrip(top_areas, trip) ==
    IF \E i \in 1..Len(top_areas) : top_areas[i].area = trip.fishing_area
    THEN [i \in 1..Len(top_areas) |->
            IF top_areas[i].area = trip.fishing_area
            THEN [area |-> top_areas[i].area,
                  pounds |-> top_areas[i].pounds + trip.pounds_landed]
            ELSE top_areas[i]]
    ELSE Append(top_areas,
                [area |-> trip.fishing_area, pounds |-> trip.pounds_landed])

RECURSIVE TopAreas(_, _)
TopAreas(trips, n) ==
    IF n = 0 THEN <<>> ELSE AddTrip(TopAreas(trips, n - 1), trips[n])

\* max(top_areas, key=top_areas.get): the first area of the most pounds.
BestArea(top_areas) ==
    LET top == CHOOSE i \in 1..Len(top_areas) :
                 /\ \A j \in 1..Len(top_areas) :
                        top_areas[j].pounds <= top_areas[i].pounds
                 /\ \A j \in 1..(i - 1) :
                        top_areas[j].pounds < top_areas[i].pounds
    IN  top_areas[top].area

TripRecommendations(markets, regs, trips, weekday) ==
    (IF markets # <<>>
     THEN << [line |-> "TOP MARKETS TODAY:"] >>
          \o [i \in 1..Len(FirstRows(markets, 3)) |->
                [line |-> "market", rank |-> i,
                 port_name |-> markets[i].port_name,
                 price |-> RoundHalfEven(markets[i].price_per_lb, 10),
                 supply_level |-> markets[i].supply_level]]
     ELSE <<>>)
    \o (IF regs # <<>>
        THEN << [line |-> "REGULATORY ALERTS:"] >>
             \o [i \in 1..Len(FirstRows(regs, 3)) |->
                   [line |-> "regulation",
                    description |-> regs[i].description]]
        ELSE <<>>)
    \o (IF trips # <<>>
        THEN << [line |-> "HOT FISHING AREAS",
                 area |-> BestArea(TopAreas(trips, Len(trips)))] >>
        ELSE <<>>)
    \o (IF weekday \in {3, 4}
        THEN << [line |-> "TIMING"] >> ELSE <<>>)

TripAdvisorRun(st, vessel_name, target_port) ==
    [queries |-> <<"market_query", "reg_query", "fleet_query">>,
     response |->
        [kind |-> "ok",
         vessel_query |-> vessel_name,
         target_port |-> target_port,
         recommendations |->
            TripRecommendations(FirstRows(st.markets, 5), st.regulations,
                                FirstRows(st.trips, 10), st.weekday),
         current_markets |-> FirstRows(st.markets, 5),
         active_restrictions |-> st.regulations,
         recent_fleet_success |-> FirstRows(st.trips, 10)]]

trip_advisor(vessel_name, target_port) ==
    /\ store.rows_for = "trip_advisor"
    /\ LET run == TripAdvisorRun(store, vessel_name, target_port)
       IN  /\ response' \in Answers(store, run.queries, {run.response})
           /\ queries' = QueriesSent(store, run.queries)
    /\ request' = [tool |-> "trip_advisor", vessel_name |-> vessel_name,
                   target_port |-> target_port]
    /\ UNCHANGED <<store, tasks>>

\* The results of market_query: grade-A prices of today, dearest first.
MarketRowSets ==
    { m \in UNION { [1..n -> [port_name : {"Monterey"},
                              price_per_lb : {2400, 2600},
                              supply_level : {None, Some("low")}]] :
                        n \in 0..MaxMarkets } :
        \A i \in 1..(Len(m) - 1) : m[i].price_per_lb >= m[i + 1].price_per_lb }

\* The results of fleet_query; fishing_area can be NULL.
TripRowSets ==
    UNION { [1..n -> [fishing_area : {None, Some("MB-1")},
                      pounds_landed : {0, 40000}]] : n \in 0..MaxTrips }

Weekdays == {0, 3}
VesselArguments == {None, Some("Pacific Hunter")}
PortArguments == {Some("MNT")}

TripStores ==
    { [rows_for |-> "trip_advisor", failing_query |-> 0,
       markets |-> m, regulations |-> SubSeq(Regulations, 1, r),
       trips |-> t, weekday |-> w] :
        m \in MarketRowSets, r \in {0, 2}, t \in TripRowSets,
        w \in Weekdays }
    \cup
    { [rows_for |-> "trip_advisor", failing_query |-> k,
       markets |-> <<>>, regulations |-> Regulations, trips |-> <<>>,
       weekday |-> 0] : k \in 1..MaxQueries }

-----------------------------------------------------------------------------
(* futures_contract_explorer *)

MaxListed == 2         \* contracts the store holds

\* delivery_month and delivery_month.upper() != "ALL"
HasMonthFilter(delivery_month) ==
    TruthyText(delivery_month) /\ Upper(Val(delivery_month)) # "ALL"

\* The explorer's query: active contracts, of the month and the port asked
\* for, with their port and latest price by LEFT JOIN.
ExplorerQuery(st, delivery_month, port_code) ==
    SelectSeq(st.contracts,
        LAMBDA c :
            /\ c.status = "active"
            /\ HasMonthFilter(delivery_month) =>
                    c.delivery_month = Val(delivery_month)
            /\ TruthyText(port_code) => c.port_code = port_code)

ExplorerContract(row) ==
    [symbol |-> row.symbol,
     delivery_month |-> row.delivery_month,
     delivery_port |-> IF TruthyText(row.port_name)
                       THEN Some([name |-> Val(row.port_name),
                                  code |-> Val(row.port_code)])
                       ELSE None,
     current_price |-> IF Truthy(row.current_price) THEN row.current_price
                       ELSE None,
     daily_volume |-> OrZero(row.daily_volume)]

ContractExplorerRun(st, delivery_month, port_code) ==
    LET rows == ExplorerQuery(st, delivery_month, port_code)
    IN  [queries |-> <<"contracts_query">>,
         response |->
            [kind |-> "ok",
             total_contracts |-> Len(rows),
             delivery_month |-> delivery_month,
             port_code |-> port_code,
             available_contracts |->
                [i \in 1..Len(rows) |-> ExplorerContract(rows[i])]]]

futures_contract_explorer(delivery_month, port_code) ==
    /\ store.rows_for = "futures_contract_explorer"
    /\ LET run == ContractExplorerRun(store, delivery_month, port_code)
       IN  /\ response' \in Answers(store, run.queries, {run.response})
           /\ queries' = QueriesSent(store, run.queries)
    /\ request' = [tool |-> "futures_contract_explorer",
                   delivery_month |-> delivery_month, port_code |-> port_code]
    /\ UNCHANGED <<store, tasks>>

ExplorerMonths == {None, Some(""), Some("all"), Some("2025-03")}
ExplorerPorts == {None, Some("MNT")}

\* A contract with its delivery port and its latest price row, both by
\* LEFT JOIN: a cash-settled contract has no port, an untraded one neither
\* price nor volume.
ListedContracts ==
    { [status |-> sm[1], delivery_month |-> sm[2], port_code |-> port,
       port_name |-> IF IsNone(port) THEN None ELSE Some("Monterey"),
       current_price |-> price,
       daily_volume |-> IF IsNone(price) THEN None ELSE Some(120)] :
        sm \in { <<"active", "2025-03">>, <<"active", "2025-06">>,
                 <<"expired", "2025-03">> },
        port \in {None, Some("MNT")},
        price \in {None, Some(0), Some(2400)} }

ExplorerStores ==
    { [rows_for |-> "futures_contract_explorer", failing_query |-> 0,
       contracts |-> [i \in DOMAIN f |->
                        [symbol |-> ContractSymbols[i],
                         status |-> f[i].status,
                         delivery_month |-> f[i].delivery_month,
                         port_code |-> f[i].port_code,
                         port_name |-> f[i].port_name,
                         current_price |-> f[i].current_price,
                         daily_volume |-> f[i].daily_volume]]] :
        f \in UNION { [1..n -> ListedContracts] : n \in 0..MaxListed } }
    \cup
    { [rows_for |-> "futures_contract_explorer", failing_query |-> k,
       contracts |-> <<>>] : k \in 1..MaxQueries }

-----------------------------------------------------------------------------
(* The tools over every store *)

Init == InitPositions \/ InitHedge \/ InitBasis \/ InitMarket

Next == NextPositions \/ NextHedge \/ NextBasis \/ NextMarket

Spec == Init /\ [][Next]_vars

-----------------------------------------------------------------------------
(* Every tool, over stores whose database can fail *)

MaxToolRows == 1       \* rows of each kind a futures store holds here

\* The futures stores with few rows, whose database answers every query
\* (k = 0) or fails on the k-th.
FuturesToolStores ==
    { WithFailure(st, k) :
        st \in { p \in PositionStores :
                    Len(p.positions) <= Len(OtherPositions) + MaxToolRows }
               \cup { h \in HedgeStores :
                        /\ Len(h.contracts) <= Len(OtherContracts) + MaxToolRows
                        /\ Len(h.spot_prices) <= MaxToolRows }
               \cup { b \in BasisStores : Len(b.history) <= MaxToolRows }
               \cup { m \in MarketStores :
                        Len(m.prices) <= Len(OtherPrices) + MaxToolRows },
        k \in 0..MaxQueries }


InitTools ==
    /\ store \in FuturesToolStores \cup QueryDataStores \cup HowtoStores
                    \cup ReportStores \cup TripStores \cup ExplorerStores
    /\ request = NoRequest
    /\ response = NoResponse
    /\ queries = <<>>
    /\ tasks = NoTasks

NextTools ==
    \/ NextPositions
    \/ NextHedge
    \/ NextBasis
    \/ NextMarket
    \/ \E q \in QueryTexts, limit \in Limits : query_data(q, limit)
    \/ \E t \in TableNames : squber_howto(t)
    \/ \E days \in ReportDays, codes \in ReportPortCodes :
            get_market_report(days, codes)
    \/ \E v \in VesselArguments, p \in PortArguments : trip_advisor(v, p)
    \/ \E m \in ExplorerMonths, p \in ExplorerPorts :
            futures_contract_explorer(m, p)

SpecTools == InitTools /\ [][NextTools]_vars

-----------------------------------------------------------------------------
(* Invocations running concurrently on one store                           *)
(*                                                                         *)
(* The handlers are coroutines on one event loop: an invocation runs       *)
(* alone from one await of execute_query to the next, and every            *)
(* execute_query reads the store as it is when the query runs.  Between    *)
(* two queries of one invocation other invocations run, and the system     *)
(* that owns the store writes to it.                                       *)

MaxTasks == 2          \* invocations in flight together
MaxWrites == 1         \* writes of the owning system to the store

\* The rows an invocation of futures_basis_analysis holds: port_result,
\* contract_result, spot_result and historical_result, empty before their
\* queries ran.
NoRows == [ports |-> <<>>, contracts |-> <<>>, spot_rows |-> <<>>,
           history |-> <<>>]

Idle == [running |-> FALSE, port_code |-> "", contract_symbol |-> "",
         fetched |-> 0, rows |-> NoRows, started_at |-> 0]

\* Every invocation reading the rows of the first one, as rows kept in
\* module-level names would be: C21 tells it from Locals.
Locals_Shared(ts, t) == ts[1].rows

\* The rows of invocation t: the local names of its own coroutine frame.
Locals(ts, t) == ts[t].rows

\* The k-th execute_query of futures_basis_analysis, run on the store st.
Fetch(rows, st, k) ==
    CASE k = 1 -> [rows EXCEPT !.ports = st.ports]
      [] k = 2 -> [rows EXCEPT !.contracts = st.contracts]
      [] k = 3 -> [rows EXCEPT !.spot_rows = st.spot_rows]
      [] OTHER -> [rows EXCEPT !.history = st.history]

\* What the handler computes from the rows it holds: the store seen
\* through them.
Seen(rows, st) ==
    [st EXCEPT !.ports = rows.ports, !.contracts = rows.contracts,
               !.spot_rows = rows.spot_rows, !.history = rows.history]

\* The call arrives: the coroutine is created.
basis_analysis_called(t, port_code, contract_symbol) ==
    /\ ~tasks[t].running
    /\ tasks' = [tasks EXCEPT ![t] =
                    [running |-> TRUE, port_code |-> port_code,
                     contract_symbol |-> contract_symbol, fetched |-> 0,
                     rows |-> NoRows, started_at |-> store.version]]
    /\ UNCHANGED <<store, request, response, queries>>

\* One await of execute_query by invocation t, and the code after it up
\* to the next await or to the return.
basis_analysis_awaits(t) ==
    /\ tasks[t].running
    /\ LET task == tasks[t]
           rows == Fetch(Locals(tasks, t), store, task.fetched + 1)
           run == BasisAnalysisRun(Seen(rows, store), task.port_code,
                                   task.contract_symbol)
       IN  IF Len(run.queries) > task.fetched + 1
           THEN /\ tasks' = [tasks EXCEPT ![t].fetched = @ + 1,
                                          ![t].rows = rows]
                /\ UNCHANGED <<request, response, queries>>
           ELSE /\ tasks' = [tasks EXCEPT ![t] = Idle]
                /\ request' = [tool |-> "futures_basis_analysis",
                               port_code |-> task.port_code,
                               contract_symbol |-> task.contract_symbol]
                /\ response' = run.response
                /\ queries' = run.queries
    /\ UNCHANGED store

\* The owning system records a new spot price.
spot_price_recorded(price) ==
    /\ store.version < MaxWrites
    /\ store.spot_rows # <<[price_per_lb |-> price]>>
    /\ store' = [store EXCEPT !.spot_rows = <<[price_per_lb |-> price]>>,
                              !.version = @ + 1]
    /\ UNCHANGED <<request, response, queries, tasks>>

ConcurrentQueries ==
    { <<"SELECT", "*", "FROM", "ports">>, <<"DROP", "TABLE", "ports">> }

ConcurrentStores ==
    { [rows_for |-> "query_data",
       ports |-> << [port_id |-> 1, port_code |-> "MNT",
                     port_name |-> "Monterey"] >>,
       today |-> 100, failing_query |-> 0, version |-> 0,
       contracts |-> << [symbol |-> "SQ-MAR25-MNT", futures_price |-> fp,
                         expiry_date |-> 131] >>,
       spot_rows |-> sr,
       history |-> h] :
        fp \in {Some(2005)},
        sr \in {<<>>, <<[price_per_lb |-> 2000]>>},
        h \in {<<>>, <<[futures_price |-> 2100, spot_price |-> 2000]>>} }

InitConcurrent ==
    /\ store \in ConcurrentStores
    /\ request = NoRequest
    /\ response = NoResponse
    /\ queries = <<>>
    /\ tasks = [t \in 1..MaxTasks |-> Idle]

NextConcurrent ==
    \/ \E t \in 1..MaxTasks, c \in BasisSymbols :
            basis_analysis_called(t, "MNT", c)
    \/ \E t \in 1..MaxTasks : basis_analysis_awaits(t)
    \/ \E q \in ConcurrentQueries : query_data(q, 1000)
    \/ \E price \in {0, 2000} : spot_price_recorded(price)

SpecConcurrent == InitConcurrent /\ [][NextConcurrent]_vars

-----------------------------------------------------------------------------
(* SquberAuth (src/src/squber/auth.py)                                     *)
(*                                                                         *)
(* valid_keys is a function from key texts to their entries.               *)

MaxGenerated == 2      \* keys generate_new_key hands out

\* f"squber-{secrets.token_urlsafe(32)}": the n-th token drawn, each one
\* new.
KeyText(n) ==
    CASE n = 1 -> "squber-1" [] n = 2 -> "squber-2" [] n = 3 -> "squber-3"
      [] OTHER -> "squber-4"

\* SquberAuth.__init__: the one key of the environment, or the default.
InitialKeys(api_key) ==
    [k \in {api_key} |->
        [name |-> "Captain Access", active |-> TRUE]]

\* validate_api_key asking only whether the key is listed: C26 tells it
\* from ValidateApiKey.
ValidateApiKey_Listed(valid_keys, api_key) ==
    /\ TruthyText(api_key)
    /\ Val(api_key) \in DOMAIN valid_keys

\* validate_api_key: not api_key -> False; else listed and active.
ValidateApiKey(valid_keys, api_key) ==
    /\ TruthyText(api_key)
    /\ Val(api_key) \in DOMAIN valid_keys
    /\ valid_keys[Val(api_key)].active

Returned(value) == [kind |-> "returned", value |-> value]

validate_api_key(api_key) ==
    /\ store.rows_for = "auth"
    /\ request' = [tool |-> "validate_api_key", api_key |-> api_key]
    /\ response' = Returned(ValidateApiKey(store.valid_keys, api_key))
    /\ UNCHANGED <<store, queries, tasks>>

\* self.valid_keys.get(api_key, {})
get_key_info(api_key) ==
    /\ store.rows_for = "auth"
    /\ request' = [tool |-> "get_key_info", api_key |-> Some(api_key)]
    /\ response' = [kind |-> "key_info",
                    info |-> IF api_key \in DOMAIN store.valid_keys
                             THEN Some(store.valid_keys[api_key]) ELSE None]
    /\ UNCHANGED <<store, queries, tasks>>

generate_new_key(name) ==
    /\ store.rows_for = "auth"
    /\ store.generated < MaxGenerated
    /\ LET new_key == KeyText(store.generated + 1)
       IN  /\ store' = [store EXCEPT
                 !.generated = @ + 1,
                 !.valid_keys =
                    [k \in DOMAIN @ \cup {new_key} |->
                        IF k = new_key
                        THEN [name |-> name, active |-> TRUE]
                        ELSE @[k]]]
           /\ request' = [tool |-> "generate_new_key", api_key |-> None]
           /\ response' = [kind |-> "new_key", new_key |-> new_key]
    /\ UNCHANGED <<queries, tasks>>

revoke_key(api_key) ==
    /\ store.rows_for = "auth"
    /\ request' = [tool |-> "revoke_key", api_key |-> Some(api_key)]
    /\ IF api_key \in DOMAIN store.valid_keys
       THEN /\ store' = [store EXCEPT !.valid_keys[api_key].active = FALSE]
            /\ response' = Returned(TRUE)
       ELSE /\ response' = Returned(FALSE)
            /\ UNCHANGED store
    /\ UNCHANGED <<queries, tasks>>

\* SQUBER_API_KEY as the environment gives it: unset (the default key),
\* a key, or the empty text.
EnvironmentKeys == {"squid-fishing-captain-2024-secure-key-123", "harbour-key", ""}

KeyTexts == EnvironmentKeys \cup {KeyText(n) : n \in 1..MaxGenerated}
                \cup {"no-such-key"}

InitAuth ==
    /\ \E api_key \in EnvironmentKeys :
          store = [rows_for |-> "auth", generated |-> 0,
                   valid_keys |-> InitialKeys(api_key)]
    /\ request = NoRequest
    /\ response = NoResponse
    /\ queries = <<>>
    /\ tasks = NoTasks

NextAuth ==
    \/ \E k \in {None} \cup {Some(t) : t \in KeyTexts} : validate_api_key(k)
    \/ \E k \in KeyTexts : get_key_info(k)
    \/ \E name \in {"Deckhand"} : generate_new_key(name)
    \/ \E k \in KeyTexts : revoke_key(k)

SpecAuth == InitAuth /\ [][NextAuth]_vars

-----------------------------------------------------------------------------
(* The reverse proxy (src/app/proxy.py)                                    *)
(*                                                                         *)
(* A path is a sequence of pieces of text: "/apifoo" is <<"/api", "foo">>, *)
(* so that the prefixes the routes and proxy_request look for are whole    *)
(* pieces.  A URL is the target's base URL followed by such pieces.        *)

MCP_SERVER_URL == "http://localhost:8000"
FRONTEND_DEV_URL == "http://localhost:5173"
BACKEND_API_URL == "http://localhost:3001"

\* request.path_qs: the path and, after it, the query string if any.
PathQs(req) == req.path \o (IF req.query_string = "" THEN <<>>
                            ELSE <<"?", req.query_string>>)

\* init_app's routes, tried in the order they were added: '/health',
\* '/app{path:.*}', '/api{path:.*}', '/{path:.*}'.
RouteOf(path) ==
    IF path = <<"/health">> THEN "health_check"
    ELSE IF Head(path) = "/app" THEN "handle_app"
    ELSE IF Head(path) = "/api" THEN "handle_api"
    ELSE "handle_mcp"

\* proxy_request's target path:
\*   if strip_prefix and path.startswith(strip_prefix):
\*       path = path[len(strip_prefix):] or "/"
TargetPath(path_qs, strip_prefix) ==
    IF TruthyText(strip_prefix) /\ Head(path_qs) = Val(strip_prefix)
    THEN IF Tail(path_qs) = <<>> THEN <<"/">> ELSE Tail(path_qs)
    ELSE path_qs

\* proxy_request: the request it sends and the response it hands back,
\* the upstream's or 502 on a aiohttp.ClientError.
ProxyRequest(st, req, target_url, strip_prefix) ==
    LET full_url == <<target_url>> \o TargetPath(PathQs(req), strip_prefix)
    IN  [sent |-> <<[method |-> req.method, url |-> full_url]>>,
         response |-> IF st.upstream_answers
                      THEN [kind |-> "forwarded", status |-> 200,
                            url |-> full_url]
                      ELSE [kind |-> "forwarded", status |-> 502,
                            url |-> full_url]]

\* A handler that forwards: init_session, then the request.
Forward(req, target_url, strip_prefix) ==
    LET run == ProxyRequest(store, req, target_url, strip_prefix)
    IN  /\ request' = [tool |-> RouteOf(req.path), path |-> req.path,
                       query_string |-> req.query_string,
                       method |-> req.method, upgrade |-> req.upgrade]
        /\ response' = run.response
        /\ queries' = run.sent
        /\ store' = [store EXCEPT !.session = TRUE]
        /\ UNCHANGED tasks

health_check(req) ==
    /\ store.rows_for = "proxy"
    /\ RouteOf(req.path) = "health_check"
    /\ request' = [tool |-> "health_check", path |-> req.path,
                   query_string |-> req.query_string,
                   method |-> req.method, upgrade |-> req.upgrade]
    /\ response' = [kind |-> "json", status |-> 200]
    /\ queries' = <<>>
    /\ UNCHANGED <<store, tasks>>

handle_app(req) ==
    /\ store.rows_for = "proxy"
    /\ RouteOf(req.path) = "handle_app"
    /\ Forward(req, FRONTEND_DEV_URL, None)

\* A WebSocket upgrade goes to handle_websocket_proxy, which connects to
\* the backend's base URL with the scheme ws.
handle_api(req) ==
    /\ store.rows_for = "proxy"
    /\ RouteOf(req.path) = "handle_api"
    /\ IF req.upgrade = "websocket"
       THEN /\ request' = [tool |-> "handle_api", path |-> req.path,
                           query_string |-> req.query_string,
                           method |-> req.method, upgrade |-> req.upgrade]
            /\ response' = [kind |-> "websocket",
                            url |-> <<"ws://localhost:3001">>]
            /\ queries' = <<[method |-> "GET",
                             url |-> <<"ws://localhost:3001">>]>>
            /\ UNCHANGED <<store, tasks>>
       ELSE Forward(req, BACKEND_API_URL, Some("/api"))

handle_mcp(req) ==
    /\ store.rows_for = "proxy"
    /\ RouteOf(req.path) = "handle_mcp"
    /\ Forward(req, MCP_SERVER_URL, None)

\* The paths of requests: every one begins with "/".
RequestPaths ==
    { <<"/health">>, <<"/health", "/">>, <<"/">>, <<"/tools", "/list">>,
      <<"/app">>, <<"/app", "/index.html">>, <<"/app", "le">>,
      <<"/api">>, <<"/api", "/">>, <<"/api", "/users">>, <<"/api", "foo">>,
      <<"/ap">> }

ProxyRequests ==
    [path : RequestPaths, query_string : {"", "page=2"},
     method : {"GET", "POST"}, upgrade : {"", "websocket"}]

InitProxy ==
    /\ store \in [rows_for : {"proxy"}, session : {FALSE},
                  upstream_answers : BOOLEAN]
    /\ request = NoRequest
    /\ response = NoResponse
    /\ queries = <<>>
    /\ tasks = NoTasks

NextProxy ==
    \E req \in ProxyRequests :
        \/ health_check(req)
        \/ handle_app(req)
        \/ handle_api(req)
        \/ handle_mcp(req)

SpecProxy == InitProxy /\ [][NextProxy]_vars

-----------------------------------------------------------------------------
(* handle_websocket_proxy (src/app/proxy.py)                               *)
(*                                                                         *)
(* The proxy holds two connections, ws_client and backend_ws.  A peer's    *)
(* messages wait in the connection's inbox until the relay task that       *)
(* iterates over the connection receives them; a peer that closes puts     *)
(* CLOSE last.  The connections have no heartbeat and no receive timeout,  *)
(* so a task receives only what a peer has sent.                           *)

MaxMessages == 1       \* messages a peer sends

OpenConnection == [inbox |-> <<>>, sent |-> 0, peer_open |-> TRUE,
                   closed |-> FALSE]

\* handle_websocket_proxy: ws_client.prepare, then session.ws_connect,
\* which raises if the backend is not there; the two relay tasks start
\* under asyncio.gather.
handle_websocket_proxy ==
    /\ store.rows_for = "websocket"
    /\ tasks.handler = "called"
    /\ request' = [tool |-> "handle_websocket_proxy"]
    /\ IF store.backend_listens
       THEN /\ tasks' = [handler |-> "gathering",
                         relay_to_backend |-> "receiving",
                         relay_to_client |-> "receiving"]
            /\ UNCHANGED <<store, response>>
       ELSE /\ tasks' = [tasks EXCEPT !.handler = "returned"]
            /\ store' = [store EXCEPT !.ws_client.closed = TRUE,
                                      !.backend_ws.closed = TRUE]
            /\ response' = [kind |-> "websocket", error_logged |-> TRUE]
    /\ UNCHANGED queries

\* One round of a relay task's loop, from the connection `from` to the
\* connection `to`:
\*   async for msg in from:
\*       TEXT -> await to.send_str, BINARY -> await to.send_bytes,
\*       ERROR -> break
\* The loop ends when the peer has closed; a send on a closed connection
\* raises.
RelayRound(task, from, to) ==
    /\ tasks[task] = "receiving"
    /\ ~store[from].closed
    /\ store[from].inbox # <<>>
    /\ LET msg == Head(store[from].inbox)
           rest == [store EXCEPT ![from].inbox = Tail(@)]
       IN  CASE msg \in {"TEXT", "BINARY"} ->
                    IF store[to].closed
                    THEN /\ tasks' = [tasks EXCEPT ![task] = "raised"]
                         /\ store' = rest
                         /\ UNCHANGED queries
                    ELSE /\ queries' = Append(queries,
                                              [to |-> to, type |-> msg])
                         /\ store' = rest
                         /\ UNCHANGED tasks
              [] msg = "ERROR" ->
                    /\ tasks' = [tasks EXCEPT ![task] = "done"]
                    /\ store' = rest
                    /\ UNCHANGED queries
              [] OTHER ->      \* CLOSE: the connection closes, the loop ends
                    /\ tasks' = [tasks EXCEPT ![task] = "done"]
                    /\ store' = [rest EXCEPT ![from].closed = TRUE]
                    /\ UNCHANGED queries
    /\ UNCHANGED <<request, response>>

relay_to_backend ==
    /\ store.rows_for = "websocket"
    /\ RelayRound("relay_to_backend", "ws_client", "backend_ws")

relay_to_client ==
    /\ store.rows_for = "websocket"
    /\ RelayRound("relay_to_client", "backend_ws", "ws_client")

\* await asyncio.gather(...) returning, with both tasks done, or raising,
\* with the first task that raised; the async with blocks close backend_ws
\* and the handler returns ws_client, which the server then closes.
gather_returns ==
    /\ store.rows_for = "websocket"
    /\ tasks.handler = "gathering"
    /\ \/ "raised" \in {tasks.relay_to_backend, tasks.relay_to_client}
       \/ {tasks.relay_to_backend, tasks.relay_to_client} = {"done"}
    /\ tasks' = [tasks EXCEPT !.handler = "returned"]
    /\ store' = [store EXCEPT !.ws_client.closed = TRUE,
                              !.backend_ws.closed = TRUE]
    /\ response' = [kind |-> "websocket",
                    error_logged |-> "raised" \in {tasks.relay_to_backend,
                                                   tasks.relay_to_client}]
    /\ UNCHANGED <<request, queries>>

\* A peer sends a message, or a frame the connection cannot read (ERROR).
peer_sends(conn, type) ==
    /\ store.rows_for = "websocket"
    /\ tasks.handler = "gathering"
    /\ store[conn].peer_open
    /\ store[conn].sent < MaxMessages
    /\ store' = [store EXCEPT ![conn].inbox = Append(@, type),
                              ![conn].sent = @ + 1]
    /\ UNCHANGED <<request, response, queries, tasks>>

\* A peer closes its connection.
peer_closes(conn) ==
    /\ store.rows_for = "websocket"
    /\ tasks.handler = "gathering"
    /\ store[conn].peer_open
    /\ store' = [store EXCEPT ![conn].inbox = Append(@, "CLOSE"),
                              ![conn].peer_open = FALSE]
    /\ UNCHANGED <<request, response, queries, tasks>>

Connections == {"ws_client", "backend_ws"}

InitRelay ==
    /\ store \in [rows_for : {"websocket"}, backend_listens : BOOLEAN,
                  ws_client : {OpenConnection},
                  backend_ws : {OpenConnection}]
    /\ request = NoRequest
    /\ response = NoResponse
    /\ queries = <<>>
    /\ tasks = [handler |-> "called", relay_to_backend |-> "idle",
                relay_to_client |-> "idle"]

ProxySteps ==
    \/ handle_websocket_proxy
    \/ relay_to_backend
    \/ relay_to_client
    \/ gather_returns

NextRelay ==
    \/ ProxySteps
    \/ \E conn \in Connections, type \in {"TEXT", "BINARY", "ERROR"} :
            peer_sends(conn, type)
    \/ \E conn \in Connections : peer_closes(conn)

\* The event loop runs every task that can run; the peers owe nothing.
SpecRelay == InitRelay /\ [][NextRelay]_vars /\ WF_vars(ProxySteps)

-----------------------------------------------------------------------------
(* The HTTP wrapper (src/src/squber/http_server.py)                        *)
(*                                                                         *)
(* Requests are handled concurrently: a handler runs alone up to its next  *)
(* await.  The MCP server a request talks to is a process of its own,      *)
(* reached through a stdio session; mcp_fails_at is the step of the        *)
(* session at which that process fails (0: it does not).                   *)

MaxRequests == 2       \* requests in flight together
MaxSessions == 2       \* requests let through in one behaviour, each
                       \* opening one stdio session

\* The check of lines 76 and 99 asking for the production environment by
\* name, so that an unset SQUBER_ENV needs no key: C24 tells it from
\* AuthRequired.
AuthRequired_ProductionOnly(env) ==
    \/ env.SQUBER_ENV = Some("production")
    \/ TruthyText(env.SQUBER_REQUIRE_AUTH)

\* os.getenv("SQUBER_ENV") != "development" or
\* os.getenv("SQUBER_REQUIRE_AUTH")
AuthRequired(env) ==
    \/ env.SQUBER_ENV # Some("development")
    \/ TruthyText(env.SQUBER_REQUIRE_AUTH)

\* Every request talking through the first session, as a pooled client
\* would: C29 tells it from SessionFor.
SessionFor_Pooled(st, r) == 1

\* stdio_client(server_params) inside the request's own call of
\* execute_mcp_tool or list_mcp_tools: a new process and session.
SessionFor(st, r) == Len(st.sessions) + 1

NoHttpRequest == [running |-> FALSE, route |-> "", x_api_key |-> None,
                  pc |-> "", session |-> 0, events |-> <<>>]

HttpRequestOf(task) == [tool |-> task.route, x_api_key |-> task.x_api_key]

\* A request arrives at a route and takes the first free place among the
\* requests in flight: the check of the key, and HTTPException 401 raised
\* outside the try.
Arrives(r, route, x_api_key) ==
    /\ ~tasks[r].running
    /\ \A o \in 1..(r - 1) : tasks[o].running
    /\ IF AuthRequired(store.env)
           /\ ~ValidateApiKey(store.valid_keys, x_api_key)
       THEN /\ request' = [tool |-> route, x_api_key |-> x_api_key]
            /\ response' = [kind |-> "http", status |-> 401, session |-> 0]
            /\ queries' = <<>>
            /\ UNCHANGED <<store, tasks>>
       ELSE /\ store.accepted < MaxSessions
            /\ store' = [store EXCEPT !.accepted = @ + 1]
            /\ tasks' = [tasks EXCEPT ![r] =
                            [running |-> TRUE, route |-> route,
                             x_api_key |-> x_api_key, pc |-> "accepted",
                             session |-> 0, events |-> <<>>]]
            /\ UNCHANGED <<request, response, queries>>

\* @self.app.post("/tools/{tool_name}")
execute_tool(r, x_api_key) ==
    /\ store.rows_for = "http"
    /\ Arrives(r, "execute_tool", x_api_key)

\* @self.app.get("/tools/list")
list_tools(r, x_api_key) ==
    /\ store.rows_for = "http"
    /\ Arrives(r, "list_tools", x_api_key)

WithSession(st, id, state) ==
    [st EXCEPT !.sessions = IF id \in DOMAIN @ THEN [@ EXCEPT ![id] = state]
                            ELSE Append(@, state)]

\* async with stdio_client(server_params) as (read, write):
\*     async with ClientSession(read, write) as session:
stdio_client_opens(r) ==
    /\ store.rows_for = "http"
    /\ tasks[r].running /\ tasks[r].pc = "accepted"
    /\ IF store.mcp_fails_at = 1
       THEN /\ tasks' = [tasks EXCEPT ![r].pc = "raised"]
            /\ UNCHANGED store
       ELSE /\ LET id == SessionFor(store, r)
               IN  /\ store' = WithSession(store, id, "open")
                   /\ tasks' = [tasks EXCEPT ![r].pc = "open",
                                             ![r].session = id,
                                             ![r].events = <<"open">>]
    /\ UNCHANGED <<request, response, queries>>

\* await session.initialize()
session_initializes(r) ==
    /\ store.rows_for = "http"
    /\ tasks[r].running /\ tasks[r].pc = "open"
    /\ IF store.mcp_fails_at = 2
       THEN /\ tasks' = [tasks EXCEPT ![r].pc = "failed"]
            /\ UNCHANGED store
       ELSE /\ store' = WithSession(store, tasks[r].session, "initialized")
            /\ tasks' = [tasks EXCEPT ![r].pc = "initialized",
                                      ![r].events = Append(@, "initialize")]
    /\ UNCHANGED <<request, response, queries>>

\* await session.call_tool(tool_name, parameters), or
\* await session.list_tools()
session_calls(r) ==
    /\ store.rows_for = "http"
    /\ tasks[r].running /\ tasks[r].pc = "initialized"
    /\ store' = WithSession(store, tasks[r].session, "called")
    /\ tasks' = [tasks EXCEPT
                    ![r].pc = IF store.mcp_fails_at = 3 THEN "failed"
                              ELSE "called",
                    ![r].events =
                        Append(@, IF tasks[r].route = "execute_tool"
                                  THEN "call_tool" ELSE "list_tools")]
    /\ UNCHANGED <<request, response, queries>>

\* The two async with blocks left, by the return or by the exception.
session_closes(r) ==
    /\ store.rows_for = "http"
    /\ tasks[r].running /\ tasks[r].pc \in {"called", "failed"}
    /\ store' = WithSession(store, tasks[r].session, "closed")
    /\ tasks' = [tasks EXCEPT
                    ![r].pc = IF tasks[r].pc = "called" THEN "returned"
                              ELSE "raised",
                    ![r].events = Append(@, "close")]
    /\ UNCHANGED <<request, response, queries>>

\* return JSONResponse(...), or except Exception: HTTPException 500.
http_responds(r) ==
    /\ store.rows_for = "http"
    /\ tasks[r].running /\ tasks[r].pc \in {"returned", "raised"}
    /\ request' = HttpRequestOf(tasks[r])
    /\ response' = [kind |-> "http",
                    status |-> IF tasks[r].pc = "returned" THEN 200 ELSE 500,
                    session |-> tasks[r].session]
    /\ queries' = tasks[r].events
    /\ tasks' = [tasks EXCEPT ![r] = NoHttpRequest]
    /\ UNCHANGED store

\* The environment of the process: SQUBER_ENV and SQUBER_REQUIRE_AUTH.
Environments ==
    { [SQUBER_ENV |-> None, SQUBER_REQUIRE_AUTH |-> None],
      [SQUBER_ENV |-> Some("production"), SQUBER_REQUIRE_AUTH |-> None] }
    \cup { [SQUBER_ENV |-> Some("development"), SQUBER_REQUIRE_AUTH |-> a] :
                a \in {None, Some(""), Some("true")} }

\* valid_keys of the process: one active key and one revoked.
HttpKeys ==
    [k \in {"harbour-key", "old-key"} |->
        [name |-> "Captain Access", active |-> k = "harbour-key"]]

ApiKeyHeaders ==
    {None, Some(""), Some("harbour-key"), Some("old-key"),
     Some("no-such-key")}

ListKeyHeaders == {None, Some("harbour-key")}

InitHttp ==
    /\ store \in [rows_for : {"http"}, env : Environments,
                  valid_keys : {HttpKeys}, mcp_fails_at : 0..3,
                  sessions : {<<>>}, accepted : {0}]
    /\ request = NoRequest
    /\ response = NoResponse
    /\ queries = <<>>
    /\ tasks = [r \in 1..MaxRequests |-> NoHttpRequest]

NextHttp ==
    \E r \in 1..MaxRequests :
        \/ \E k \in ApiKeyHeaders : execute_tool(r, k)
        \/ \E k \in ListKeyHeaders : list_tools(r, k)
        \/ stdio_client_opens(r)
        \/ session_initializes(r)
        \/ session_calls(r)
        \/ session_closes(r)
        \/ http_responds(r)

SpecHttp == InitHttp /\ [][NextHttp]_vars

-----------------------------------------------------------------------------
(* The Streamable HTTP server (src/app/src/squber/sse_server.py)           *)
(*                                                                         *)
(* run_http_server imports main from the squber package beside it, whose   *)
(* tools are registered with @mcp.tool() alone.  The package               *)
(* src/src/squber defines auth_middleware, which no tool and no            *)
(* registration calls.                                                     *)

\* auth_middleware(context) of src/src/squber/__init__.py: TRUE where it
\* returns True, FALSE where it raises PermissionError.
AuthMiddleware(env, valid_keys, api_key) ==
    \/ /\ env.SQUBER_ENV = Some("development")
       /\ ~TruthyText(env.SQUBER_REQUIRE_AUTH)
    \/ ValidateApiKey(valid_keys, api_key)

\* os.environ["SQUBER_REQUIRE_AUTH"] = "true"; main(transport="http")
run_http_server ==
    /\ store.rows_for = "streamable_http"
    /\ ~store.serving
    /\ store' = [store EXCEPT !.env.SQUBER_REQUIRE_AUTH = Some("true"),
                              !.serving = TRUE]
    /\ UNCHANGED <<request, response, queries, tasks>>

RegisteredTools ==
    {"query_data", "squber_howto", "get_market_report", "trip_advisor",
     "futures_contract_explorer", "futures_market_data",
     "futures_position_tracker", "futures_hedge_advisor",
     "futures_basis_analysis"}

\* A tools/call request reaching mcp.run(transport="http"): FastMCP calls
\* the registered function with the arguments of the request.
tools_call(tool_name, x_api_key) ==
    /\ store.rows_for = "streamable_http"
    /\ store.serving
    /\ request' = [tool |-> tool_name, x_api_key |-> x_api_key]
    /\ response' = [kind |-> "tools_call", executed |-> TRUE]
    /\ queries' = <<tool_name>>
    /\ UNCHANGED <<store, tasks>>

InitStreamable ==
    /\ store \in [rows_for : {"streamable_http"}, env : Environments,
                  valid_keys : {HttpKeys}, serving : {FALSE}]
    /\ request = NoRequest
    /\ response = NoResponse
    /\ queries = <<>>
    /\ tasks = NoTasks

NextStreamable ==
    \/ run_http_server
    \/ \E t \in RegisteredTools, k \in ApiKeyHeaders : tools_call(t, k)

SpecStreamable == InitStreamable /\ [][NextStreamable]_vars

-----------------------------------------------------------------------------
(* Claims about futures_position_tracker *)

TrackerOk ==
    /\ request.tool = "futures_position_tracker"
    /\ response.kind = "ok"

\* The rows positions_query returned to the invocation that answered.
TrackerRows == PositionsQuery(store, response.vessel_id)

Listed(position_id) ==
    \E j \in 1..Len(response.open_positions) :
        response.open_positions[j].position_id = position_id

InfoOf(position_id) ==
    LET j == CHOOSE k \in 1..Len(response.open_positions) :
                response.open_positions[k].position_id = position_id
    IN  response.open_positions[j]

\* C1 (the claim as stated): every open position the store returns for the
\* vessel appears in open_positions, also one without a current price, so
\* total_positions is the number of open rows returned.
C1_EveryOpenPositionListed ==
    TrackerOk =>
        /\ \A i \in 1..Len(TrackerRows) : Listed(TrackerRows[i].position_id)
        /\ response.total_positions = Len(TrackerRows)

SameTrade(p, q) ==
    /\ p.quantity = q.quantity /\ p.entry_price = q.entry_price
    /\ p.contract_size_tons = q.contract_size_tons
    /\ p.current_price = q.current_price

\* C3: a listed long position whose current price is above its entry price
\* has positive P&L, and a listed short with the same quantity, entry
\* price, contract size and current price has exactly the negated P&L.
C3_SignFlip ==
    TrackerOk =>
        \A i \in 1..Len(TrackerRows) :
            LET p == TrackerRows[i] IN
            (Listed(p.position_id) /\ p.position_type = "long") =>
                /\ Val(p.current_price) > p.entry_price =>
                        InfoOf(p.position_id).unrealized_pnl > 0
                /\ \A k \in 1..Len(TrackerRows) :
                    LET q == TrackerRows[k] IN
                    ( /\ Listed(q.position_id) /\ q.position_type = "short"
                      /\ SameTrade(p, q) )
                    => InfoOf(p.position_id).unrealized_pnl
                         + InfoOf(q.position_id).unrealized_pnl = 0

\* C3's case: a long above its entry price and the same trade as a short,
\* both listed.
C3_Witness ==
    /\ TrackerOk
    /\ \E i, k \in 1..Len(TrackerRows) :
        LET p == TrackerRows[i]
            q == TrackerRows[k]
        IN  /\ p.position_type = "long" /\ q.position_type = "short"
            /\ SameTrade(p, q)
            /\ Listed(p.position_id) /\ Listed(q.position_id)
            /\ Val(p.current_price) > p.entry_price
            /\ InfoOf(p.position_id).unrealized_pnl > 0
            /\ InfoOf(q.position_id).unrealized_pnl < 0

-----------------------------------------------------------------------------
(* Claims about futures_hedge_advisor *)

HedgeCalled == request.tool = "futures_hedge_advisor"

HedgeOk == HedgeCalled /\ response.kind = "ok"

\* The contract the answer recommends, as the store holds it.
RecommendedContract ==
    LET i == CHOOSE k \in 1..Len(store.contracts) :
                store.contracts[k].symbol = response.recommended_contract
    IN  store.contracts[i]

\* hedged_lbs / (contract_size_tons * 2000) of scenario i, as <<n, d>>.
ExactContracts(i) ==
    <<request.expected_catch_tons * 2000 * hedge_ratios[i],
      100 * RecommendedContract.contract_size_tons * 2000>>

\* C5 (the claim as stated): contracts needed is reported as the exact
\* value hedged_lbs / (contract_size_tons * 2000), with no rounding.
C5_ContractsReportedExactly ==
    HedgeOk =>
        \A i \in 1..Len(response.hedging_scenarios) :
            response.hedging_scenarios[i].contracts_needed * ExactContracts(i)[2]
                = 100 * ExactContracts(i)[1]

\* C5 (amended): contracts needed is reported as hedged_lbs /
\* (contract_size_tons * 2000) rounded to two decimals: the reported value
\* is a whole number of hundredths at most half a hundredth away from the
\* exact quotient (so it is not rounded to whole contracts).
C5_ContractsRoundedToHundredths ==
    HedgeOk =>
        \A i \in 1..Len(response.hedging_scenarios) :
            2 * Abs(100 * ExactContracts(i)[1]
                    - response.hedging_scenarios[i].contracts_needed
                        * ExactContracts(i)[2])
                <= ExactContracts(i)[2]

\* C5's case: a scenario whose exact contracts needed has more than two
\* decimals, reported as a nearby hundredth.
C5_Witness ==
    /\ HedgeOk
    /\ \E i \in 1..Len(response.hedging_scenarios) :
        /\ (100 * ExactContracts(i)[1]) % ExactContracts(i)[2] # 0
        /\ response.hedging_scenarios[i].contracts_needed > 0

VesselOfRequest == VesselQuery(store, request.vessel_name)

\* C7: a catch above the vessel's capacity is rejected with the
\* capacity-exceeded error after the vessel lookup and before any contract
\* or spot query, the answer holding no scenario; a catch equal to the
\* capacity is not rejected for it.
C7_CapacityCheck ==
    (HedgeCalled /\ VesselOfRequest # <<>>
        /\ ~IsNone(VesselOfRequest[1].capacity_tons)) =>
        LET capacity == Val(VesselOfRequest[1].capacity_tons) IN
        /\ request.expected_catch_tons > capacity =>
            /\ response.kind = "error"
            /\ response.error = "capacity_exceeded"
            /\ "hedging_scenarios" \notin DOMAIN response
            /\ queries = <<"vessel_query">>
        /\ request.expected_catch_tons <= capacity =>
            /\ ~(response.kind = "error" /\ response.error = "capacity_exceeded")
            /\ Len(queries) >= 2
            /\ queries[1] = "vessel_query" /\ queries[2] = "contracts_query"

\* C7's case: capacity 100, catch 120, rejected.
C7_Witness ==
    /\ HedgeCalled
    /\ VesselOfRequest # <<>>
    /\ VesselOfRequest[1].capacity_tons = Some(100)
    /\ request.expected_catch_tons = 120
    /\ response.kind = "error" /\ response.error = "capacity_exceeded"

-----------------------------------------------------------------------------
(* Claims about the scenario computation as a function of the ratio *)

ScenarioPair == request.tool = "hedge_scenario"

C17_OneScenarioPerRatio ==
    HedgeOk =>
        LET hs == response.hedging_scenarios
            catch == request.expected_catch_tons
            pct == <<50, 75, 90>>
        IN  /\ Len(hs) = 3
            /\ \A i \in 1..3 :
                /\ hs[i].hedge_ratio = pct[i]
                /\ hs[i].hedge_amount_tons = Rat(catch * pct[i], 100)
                /\ RAdd(hs[i].hedge_amount_tons, hs[i].unhedged_exposure_tons)
                    = RInt(catch)
            /\ catch = 20 =>
                /\ hs[2].hedge_amount_tons = RInt(15)
                /\ hs[2].unhedged_exposure_tons = RInt(5)

\* C17's case: the example, 20 tons at 75%.
C17_Witness ==
    /\ HedgeOk
    /\ request.expected_catch_tons = 20
    /\ Len(response.hedging_scenarios) = 3
    /\ response.hedging_scenarios[2].hedge_ratio = 75
    /\ response.hedging_scenarios[2].hedge_amount_tons = RInt(15)
    /\ response.hedging_scenarios[2].unhedged_exposure_tons = RInt(5)

\* The margin requirements of the open rows, where every row has one.
MarginsKnown ==
    \A i \in 1..Len(TrackerRows) : ~IsNone(TrackerRows[i].margin_requirement)

OpenMargin ==
    SumSeq([i \in 1..Len(TrackerRows) |->
                Val(TrackerRows[i].margin_requirement)], Len(TrackerRows))

-----------------------------------------------------------------------------
(* Claims about missing figures *)

RECURSIVE MarginOrZeroSum(_, _)
MarginOrZeroSum(rows, i) ==
    IF i = 0 THEN 0
    ELSE MarginOrZeroSum(rows, i - 1)
            + (IF Listed(rows[i].position_id)
               THEN OrZero(rows[i].margin_requirement) ELSE 0)

\* C9 (the claim as stated): a missing input figure is reported as missing
\* and no constant stands in for it in the computed outputs: with no spot
\* price the hedge advisor's answer is not computed from 2.50, and with a
\* NULL margin on a counted position the tracker's margin total is not the
\* sum taken with 0 in its place.
C9_NoSilentDefault ==
    /\ (HedgeOk /\ store.spot_prices = <<>>) =>
            response.current_spot_average # DefaultSpotPrice
    /\ TrackerOk =>
        \A i \in 1..Len(TrackerRows) :
            ( /\ Listed(TrackerRows[i].position_id)
              /\ IsNone(TrackerRows[i].margin_requirement) )
            => response.total_margin_requirement
                    # 100 * MarginOrZeroSum(TrackerRows, Len(TrackerRows))

-----------------------------------------------------------------------------
(* Claims about futures_basis_analysis *)

BasisCalled == request.tool = "futures_basis_analysis"

BasisOk == BasisCalled /\ response.kind = "ok"

Has(signal) ==
    \E i \in 1..Len(response.arbitrage_opportunities) :
        response.arbitrage_opportunities[i] = signal

\* The basis values of the historical series, newest first.
HistoryBasis ==
    [i \in 1..Len(store.history) |->
        store.history[i].futures_price - store.history[i].spot_price]

\* basis is more than one population standard deviation above the mean of
\* the series hb: with n values of sum S, n * basis > S and
\* n * (n * basis - S)^2 > sum of (n * b - S)^2.
MoreThanOneStdAbove(basis, hb) ==
    LET n == Len(hb)
        S == SumSeq(hb, n)
        Q == SumSeq([i \in 1..n |-> (n * hb[i] - S) * (n * hb[i] - S)], n)
    IN  /\ n > 0
        /\ n * basis > S
        /\ n * (n * basis - S) * (n * basis - S) > Q

\* C4: a basis more than one standard deviation above the historical mean
\* yields the sell-futures signal and not the buy-futures signal, and the
\* two signals are never both in one result; the series 0.10, 0.12, 0.08
\* with current basis 0.25 yields the sell-futures signal.
C4_SellNeverWithBuy ==
    BasisOk =>
        /\ MoreThanOneStdAbove(response.basis, HistoryBasis) =>
            /\ Has("Sell Futures, Buy Spot")
            /\ ~Has("Buy Futures, Sell Spot")
        /\ ~(Has("Sell Futures, Buy Spot") /\ Has("Buy Futures, Sell Spot"))
        /\ (HistoryBasis = <<100, 120, 80>> /\ response.basis = 250) =>
            Has("Sell Futures, Buy Spot")

\* C4's case: the example series and basis, answered with the sell signal.
C4_Witness ==
    /\ BasisOk
    /\ HistoryBasis = <<100, 120, 80>>
    /\ response.basis = 250
    /\ MoreThanOneStdAbove(response.basis, HistoryBasis)
    /\ Has("Sell Futures, Buy Spot")

\* The lookups of the request all found their rows: the port, the contract
\* with a latest futures price, and a recent spot price.
BasisInputsPresent ==
    /\ BasisCalled
    /\ PortQuery(store, request.port_code) # <<>>
    /\ BasisContractQuery(store, request.contract_symbol) # <<>>
    /\ ~IsNone(BasisContractQuery(store, request.contract_symbol)[1].futures_price)
    /\ BasisSpotQuery(store, request.port_code) # <<>>

\* C8 (the claim as stated): basis is futures price minus spot price and
\* the percentage is basis / spot * 100; with a spot price of 0 the result
\* is still a valid one, its percentage flagged as undefined.
C8_BasisAndPercentage ==
    BasisInputsPresent =>
        LET futures ==
                Val(BasisContractQuery(store, request.contract_symbol)[1].futures_price)
            spot == BasisSpotQuery(store, request.port_code)[1].price_per_lb
        IN  /\ response.kind = "ok"
            /\ response.basis = futures - spot
            /\ spot # 0 =>
                response.basis_percentage
                    = RoundHalfEven((futures - spot) * 1000, spot)

\* basis is more than one population standard deviation below the mean of
\* the series hb.
MoreThanOneStdBelow(basis, hb) ==
    LET n == Len(hb)
        S == SumSeq(hb, n)
        Q == SumSeq([i \in 1..n |-> (n * hb[i] - S) * (n * hb[i] - S)], n)
    IN  /\ n > 0
        /\ n * basis < S
        /\ n * (S - n * basis) * (S - n * basis) > Q

\* The three conditions on the result's own basis and days to expiry and
\* on the historical series of the store.
SellFires == MoreThanOneStdAbove(response.basis, HistoryBasis)
BuyFires == MoreThanOneStdBelow(response.basis, HistoryBasis)
CalendarFires == Abs(response.basis) < 10 /\ response.days_to_expiry > 30

\* C13: when no arbitrage condition fires the result carries the explicit
\* "no opportunity" entry alone, and when one fires it carries none; a
\* request whose port, contract, futures price or spot price is missing is
\* answered without any list of signals, empty or "no opportunity".
C13_NoOpportunityExplicit ==
    BasisCalled =>
        /\ response.kind = "ok" =>
            /\ BasisInputsPresent
            /\ response.arbitrage_opportunities # <<>>
            /\ ~(SellFires \/ BuyFires \/ CalendarFires) <=>
                response.arbitrage_opportunities
                    = <<"No clear arbitrage opportunities identified">>
            /\ (SellFires \/ BuyFires \/ CalendarFires) =>
                ~Has("No clear arbitrage opportunities identified")
        /\ ~BasisInputsPresent =>
            /\ response.kind # "ok"
            /\ "arbitrage_opportunities" \notin DOMAIN response

\* C13's case: a basis inside one standard deviation of its history,
\* answered with the explicit entry.
C13_Witness ==
    /\ BasisOk
    /\ HistoryBasis # <<>>
    /\ ~(SellFires \/ BuyFires \/ CalendarFires)
    /\ response.arbitrage_opportunities
        = <<"No clear arbitrage opportunities identified">>

\* C14: each of the three signals is in the result exactly when its own
\* condition holds, whatever the other two did; the signals that fire are
\* in the order sell-futures, buy-futures, calendar-spread; the calendar
\* spread fires if and only if |basis| < 0.01 and days to expiry > 30.
C14_IndependentOrderedSignals ==
    BasisOk =>
        LET expected ==
                (IF SellFires THEN <<"Sell Futures, Buy Spot">> ELSE <<>>)
                \o (IF BuyFires THEN <<"Buy Futures, Sell Spot">> ELSE <<>>)
                \o (IF CalendarFires THEN <<"Calendar Spread">> ELSE <<>>)
        IN  /\ Has("Sell Futures, Buy Spot") <=> SellFires
            /\ Has("Buy Futures, Sell Spot") <=> BuyFires
            /\ Has("Calendar Spread") <=> CalendarFires
            /\ expected # <<>> => response.arbitrage_opportunities = expected

\* C14's case: a tight basis far above its history on a contract 31 days
\* from expiry fires the sell signal and the calendar spread, in that order.
C14_Witness ==
    /\ BasisOk
    /\ SellFires
    /\ CalendarFires
    /\ response.arbitrage_opportunities
        = <<"Sell Futures, Buy Spot", "Calendar Spread">>

\* The historical query was issued and returned no rows.
HistoryQueriedEmpty ==
    /\ BasisCalled
    /\ \E i \in 1..Len(queries) : queries[i] = "historical_query"
    /\ store.history = <<>>

\* C15: when the historical basis query returns no rows the tool still
\* answers with a result, whose historical mean, maximum and minimum are
\* the current basis and whose standard deviation is 0.
C15_EmptyHistoryDegrades ==
    HistoryQueriedEmpty =>
        LET futures ==
                Val(BasisContractQuery(store, request.contract_symbol)[1].futures_price)
            spot == BasisSpotQuery(store, request.port_code)[1].price_per_lb
        IN  /\ response.kind = "ok"
            /\ response.avg_basis = futures - spot
            /\ response.max_basis = futures - spot
            /\ response.min_basis = futures - spot
            /\ response.volatility = 0
            /\ response.historical_data = <<>>

\* C15's case: futures 2.100 over spot 2.000 with no history: every
\* statistic is 0.100 and the deviation 0.
C15_Witness ==
    /\ HistoryQueriedEmpty
    /\ response.kind = "ok"
    /\ response.basis = 100
    /\ response.avg_basis = 100
    /\ response.max_basis = 100
    /\ response.min_basis = 100
    /\ response.volatility = 0

\* C16: the days to expiry of the result are the contract's expiry date
\* less today, negative for an expired contract, and the convergence rate
\* is (basis - 0.02) over the days to expiry where these are at least 1,
\* over 1 on expiry day and after it.
C16_DaysUnclampedRateFloored ==
    BasisOk =>
        LET contract == BasisContractQuery(store, request.contract_symbol)[1]
            days == contract.expiry_date - store.today
            divisor == IF days >= 1 THEN days ELSE 1
        IN  /\ response.days_to_expiry = days
            /\ divisor > 0
            /\ response.expected_convergence = response.basis - 20
            /\ response.convergence_rate
                = RoundHalfEven((response.basis - 20) * 10, divisor)

\* C16's case: a contract that expired shows its negative days, and its
\* rate is the whole expected convergence.
C16_Witness ==
    /\ BasisOk
    /\ response.days_to_expiry < 0
    /\ response.basis = 100
    /\ response.convergence_rate = 800

-----------------------------------------------------------------------------
(* Claims about futures_market_data *)

MarketCalled == request.tool = "futures_market_data"

\* The rows price_query returned to the request, and their usable settle
\* prices (the tool takes a settle price of 0 for none).
MarketRows ==
    SelectSeq(store.prices,
              LAMBDA p : p.contract_id = 1 /\ p.days_ago <= request.days)

UsableSettle ==
    LET kept == SelectSeq(MarketRows, LAMBDA p : p.settle_price # 0)
    IN  [i \in 1..Len(kept) |-> kept[i].settle_price]

\* C10 (the claim as stated): with fewer than 2 usable settle prices the
\* tool answers change 0, percentage change 0, volatility 0 and high = low
\* = mean = the single price, and no error comes of the series, also when
\* it holds no usable price at all.
C10_FewerThanTwoObservations ==
    ( /\ MarketCalled
      /\ MarketContractQuery(store, request.contract_symbol) # <<>>
      /\ MarketRows # <<>>
      /\ Len(UsableSettle) < 2 ) =>
        /\ response.kind = "ok"
        /\ response.price_change = 0
        /\ response.pct_change = 0
        /\ response.volatility_sq = RInt(0)
        /\ Len(UsableSettle) = 1 =>
            /\ response.high_price = UsableSettle[1]
            /\ response.low_price = UsableSettle[1]
            /\ response.avg_price = UsableSettle[1]

\* C11 (the claim as stated): whenever the tool returns statistics of a
\* non-empty settlement-price series, high >= mean >= low and every settle
\* price of the series lies between low and high.
C11_HighMeanLowBoundSeries ==
    ( /\ MarketCalled
      /\ MarketRows # <<>>
      /\ response.kind = "ok" ) =>
        /\ response.high_price >= response.avg_price
        /\ response.avg_price >= response.low_price
        /\ \A i \in 1..Len(MarketRows) :
            /\ response.high_price >= MarketRows[i].settle_price
            /\ MarketRows[i].settle_price >= response.low_price

\* The returns of a newest-first series, and their mean squared deviation
\* from their mean computed as the mean of the squares less the square of
\* the mean.
Returns(settle) ==
    [i \in 1..(Len(settle) - 1) |->
        RDiv(RInt(settle[i] - settle[i + 1]), RInt(settle[i + 1]))]

MeanSquaredDeviation(xs) ==
    LET m == Len(xs)
        squares == [i \in 1..m |-> RMul(xs[i], xs[i])]
        mean == RDiv(RSum(xs, m), RInt(m))
    IN  RSub(RDiv(RSum(squares, m), RInt(m)), RMul(mean, mean))

-----------------------------------------------------------------------------
(* Claims about the tools' failures *)

ToolCalled == request.tool # "none"

FuturesToolCalled ==
    request.tool \in {"futures_market_data", "futures_position_tracker",
                      "futures_hedge_advisor", "futures_basis_analysis"}

RaisedInside ==
    /\ response.kind = "error"
    /\ response.error = "exception"

\* C19: whatever the arguments and whatever the store holds or does, a
\* tool's invocation ends in a value, a result or an error result: the
\* exception of a failed query, of arithmetic on a missing or zero figure
\* or of an empty series never leaves the tool.
C19_NoExceptionPropagates ==
    ToolCalled =>
        /\ response.kind \in {"ok", "error"}
        /\ response.kind # "raised"
        /\ QueryFails(store, queries) => RaisedInside

\* C19's case: the fourth query of futures_basis_analysis, the historical
\* one, raised, and the tool returned an error result.
C19_Witness ==
    /\ request.tool = "futures_basis_analysis"
    /\ store.failing_query = 4
    /\ queries = <<"port_query", "contract_query", "spot_query",
                   "historical_query">>
    /\ RaisedInside
    /\ response.exception = "OperationalError"

\* C20 (the claim as stated): the error a futures tool returns always names
\* the condition that occurred (a vessel, port or contract not found, no
\* price data, capacity exceeded) and is never the text of an arithmetic or
\* type exception.
C20_TypedErrorsOnly ==
    (FuturesToolCalled /\ response.kind = "error") =>
        /\ ~RaisedInside
        /\ response.error \in {"vessel_not_found", "port_not_found",
                               "contract_not_found", "no_active_contracts",
                               "no_price_data", "no_spot_data",
                               "capacity_exceeded"}

-----------------------------------------------------------------------------
(* Claims about an empty basis history *)

\* The analysis answered with a result after its historical query
\* returned no rows.
AnalysedWithoutHistory ==
    /\ BasisOk
    /\ HistoricalQuery(store, request.contract_symbol, request.port_code)
        = <<>>

\* C30: when the historical basis series is empty, neither the
\* sell-futures nor the buy-futures signal fires, whatever the current
\* basis: the opportunities are the calendar-spread signal alone or the
\* no-opportunity entry.
C30_EmptyHistoryNoDirectionalSignal ==
    AnalysedWithoutHistory =>
        /\ ~ Has("Sell Futures, Buy Spot")
        /\ ~ Has("Buy Futures, Sell Spot")
        /\ response.arbitrage_opportunities
            \in {<<"Calendar Spread">>, NoOpportunity}

\* C30's case: no history, a basis of 0.005 and 31 days to expiry: the
\* calendar spread alone.
C30_Witness ==
    /\ AnalysedWithoutHistory
    /\ response.basis = 5
    /\ response.days_to_expiry = 31
    /\ response.arbitrage_opportunities = <<"Calendar Spread">>

-----------------------------------------------------------------------------
(* Claims about query_data *)

QueryDataCalled == request.tool = "query_data"

\* The text, white space trimmed and case ignored, starts with SELECT.
SelectText(q) ==
    \E i \in 1..Len(q) :
        /\ q[i] \in {"SELECT", "select"}
        /\ \A j \in 1..(i - 1) : q[j] = " "

\* C22: query_data runs read-only queries only: on a text that, trimmed
\* and case ignored, does not start with SELECT it answers the error "Only
\* SELECT queries are allowed", sends no statement to the database, and
\* leaves the database as it was.
C22_OnlySelectReachesDatabase ==
    [][ (request'.tool = "query_data" /\ ~SelectText(request'.query))
            => /\ response' = [kind |-> "error", error |-> "only_select"]
               /\ queries' = <<>>
               /\ store' = store ]_vars

\* C22's case: DROP TABLE ports refused, the ports still there.
C22_Witness ==
    /\ QueryDataCalled
    /\ request.query = <<"DROP", "TABLE", "ports">>
    /\ response = [kind |-> "error", error |-> "only_select"]
    /\ queries = <<>>
    /\ Len(store.ports) = 2

\* C23: an accepted query returns at most limit rows, whatever its text
\* holds: row_count <= limit.
C23_RowCountWithinLimit ==
    (QueryDataCalled /\ response.kind = "ok")
        => response.row_count <= request.limit

-----------------------------------------------------------------------------
(* Claims about concurrent invocations *)

\* Invocation t returns in this step, and the store is as it was when the
\* invocation was called.
ReturnsOnUnchangedStore(t) ==
    /\ tasks[t].running
    /\ ~tasks'[t].running
    /\ tasks[t].started_at = store.version

\* C21: invocations run concurrently and repeatedly without coordination:
\* a step of an invocation changes neither the store nor what another
\* invocation holds, and an invocation that ran over an unchanged store,
\* however its queries interleaved with those of the others, returns what
\* it returns when it runs alone on that store.
C21_InterleavingsAgreeWithSequentialRuns ==
    [][ /\ store'.version = store.version => store' = store
        /\ \A t \in DOMAIN tasks, u \in DOMAIN tasks :
                (tasks'[t] # tasks[t] /\ u # t) => tasks'[u] = tasks[u]
        /\ \A t \in DOMAIN tasks :
                ReturnsOnUnchangedStore(t) =>
                    LET alone == BasisAnalysisRun(store, tasks[t].port_code,
                                                  tasks[t].contract_symbol)
                    IN  /\ response' = alone.response
                        /\ queries' = alone.queries
                        /\ request'.port_code = tasks[t].port_code
                        /\ request'.contract_symbol
                            = tasks[t].contract_symbol ]_vars

\* C21's case: an analysis of SQ-MAR25-MNT returned its result while
\* another invocation, for another contract, was between its queries.
C21_Witness ==
    /\ BasisOk
    /\ request.contract_symbol = "SQ-MAR25-MNT"
    /\ \E u \in DOMAIN tasks :
        /\ tasks[u].running
        /\ tasks[u].fetched = 1
        /\ tasks[u].contract_symbol = "SQ-NONE"
        /\ tasks[u].started_at = store.version

-----------------------------------------------------------------------------
(* Claims about the API keys *)

AuthCalled(tool, api_key) ==
    /\ request.tool = tool
    /\ request.api_key = api_key

\* C26: revoking an API key is permanent: once revoke_key(k) has returned
\* True, validate_api_key(k) returns False in every later state, whatever
\* calls of validate_api_key, get_key_info, revoke_key and generate_new_key
\* come between; revoke_key of a key that is not listed returns False and
\* leaves the keys as they were; and a missing or empty key never
\* validates.
C26_RevocationIsPermanent ==
    /\ \A k \in KeyTexts :
          []( (AuthCalled("revoke_key", Some(k)) /\ response = Returned(TRUE))
                => [](AuthCalled("validate_api_key", Some(k))
                        => response = Returned(FALSE)) )
    /\ [][ \A k \in KeyTexts :
             ( /\ request' = [tool |-> "revoke_key", api_key |-> Some(k)]
               /\ k \notin DOMAIN store.valid_keys )
                => (response' = Returned(FALSE) /\ store' = store) ]_vars
    /\ [](\A k \in {None, Some("")} :
             AuthCalled("validate_api_key", k) => response = Returned(FALSE))

\* C26's case: the environment's key, revoked, is refused after a new key
\* was generated, and the new key validates no less.
C26_Witness ==
    /\ AuthCalled("validate_api_key", Some("harbour-key"))
    /\ response = Returned(FALSE)
    /\ "harbour-key" \in DOMAIN store.valid_keys
    /\ ~store.valid_keys["harbour-key"].active
    /\ store.generated = 2
    /\ store.valid_keys[KeyText(1)].active

-----------------------------------------------------------------------------
(* Claims about the reverse proxy *)

\* The pieces of text that begin with "/".
BeginsWithSlash(piece) ==
    piece \in {"/", "/health", "/tools", "/list", "/app", "/index.html",
               "/api", "/users", "/ap"}

Forwarded == response.kind = "forwarded"

\* C28: the URL a routed request is forwarded to is the target's base URL
\* followed by a path that begins with "/": on the /api route the leading
\* "/api" is removed, "/api" alone becoming "/", and on the other routes
\* path and query string are forwarded unchanged.
C28_ForwardedPathBeginsWithSlash ==
    Forwarded =>
        LET path_qs == PathQs(request)
            target_path == Tail(response.url)
        IN  /\ BeginsWithSlash(Head(target_path))
            /\ request.tool = "handle_api" =>
                    /\ Head(response.url) = "http://localhost:3001"
                    /\ target_path = IF path_qs = <<"/api">> THEN <<"/">>
                                     ELSE Tail(path_qs)
            /\ request.tool = "handle_app" =>
                    /\ Head(response.url) = "http://localhost:5173"
                    /\ target_path = path_qs
            /\ request.tool = "handle_mcp" =>
                    /\ Head(response.url) = "http://localhost:8000"
                    /\ target_path = path_qs

-----------------------------------------------------------------------------
(* Claims about the WebSocket relay *)

\* A peer has closed its connection while the relay was running.
PeerClosed ==
    /\ request.tool = "handle_websocket_proxy"
    /\ \E conn \in Connections : ~store[conn].peer_open

\* C27: once either peer, the client or the backend, has closed its
\* connection, handle_websocket_proxy eventually closes the other
\* connection and returns, even if the other peer never sends or closes
\* anything.
C27_RelayEndsWhenAPeerCloses ==
    PeerClosed ~> ( /\ tasks.handler = "returned"
                    /\ store.ws_client.closed
                    /\ store.backend_ws.closed )


-----------------------------------------------------------------------------
(* Claims about the HTTP wrapper *)

\* The wrapper has answered a request to one of its two routes.
HttpAnswered ==
    /\ request.tool \in {"execute_tool", "list_tools"}
    /\ response.kind = "http"

\* The key of the answered request is missing, empty, unknown or revoked.
KeyRefused ==
    \/ request.x_api_key \in {None, Some("")}
    \/ Val(request.x_api_key) \notin DOMAIN store.valid_keys
    \/ ~store.valid_keys[Val(request.x_api_key)].active

\* The one environment in which the wrapper asks for no key.
DevelopmentWithoutAuth ==
    /\ store.env.SQUBER_ENV = Some("development")
    /\ store.env.SQUBER_REQUIRE_AUTH \in {None, Some("")}

\* C24: unless SQUBER_ENV is development and SQUBER_REQUIRE_AUTH is unset
\* or empty, a request to POST /tools/{tool_name} or GET /tools/list whose
\* X-API-Key is missing, empty, unknown or revoked is answered 401, never
\* 500, and no MCP session was opened and no tool executed for it; a
\* request answered 401 is always such a request.
C24_RefusedKeyAnswered401 ==
    HttpAnswered =>
        /\ (~DevelopmentWithoutAuth /\ KeyRefused) =>
                /\ response.status = 401
                /\ response.session = 0
                /\ queries = <<>>
        /\ response.status = 401 => (~DevelopmentWithoutAuth /\ KeyRefused)

C24_Witness ==
    /\ HttpAnswered
    /\ response.status = 401
    /\ store.env.SQUBER_ENV = None
    /\ request.x_api_key = Some("old-key")
    /\ \E r \in DOMAIN tasks : tasks[r].running /\ tasks[r].session # 0

\* Every b among the events has an a before it.
Precedes(events, a, b) ==
    \A j \in DOMAIN events :
        events[j] = b => \E i \in 1..(j - 1) : events[i] = a

\* The events of one request follow open, initialize, call, close.
LifecycleInOrder(events) ==
    /\ Precedes(events, "open", "initialize")
    /\ Precedes(events, "initialize", "call_tool")
    /\ Precedes(events, "initialize", "list_tools")
    /\ Precedes(events, "open", "close")
    /\ \A i \in DOMAIN events :
            /\ events[i] = "close" => i = Len(events)
            /\ events[i] = "open" => i = 1

\* C29: each request that passes the key check opens a stdio session of
\* its own, initializes it, then calls the tool or lists the tools, then
\* closes it: the tool is never called before initialize has completed,
\* the session is closed before the response is produced, on success
\* (200) and on failure (500) alike, and no two requests in flight hold
\* the same session.
C29_SessionPerRequest ==
    /\ \A r \in DOMAIN tasks :
            tasks[r].running =>
                /\ LifecycleInOrder(tasks[r].events)
                /\ tasks[r].session # 0 =>
                        /\ tasks[r].events # <<>>
                        /\ (store.sessions[tasks[r].session] = "closed")
                                = (tasks[r].events[Len(tasks[r].events)]
                                        = "close")
                /\ \A o \in DOMAIN tasks \ {r} :
                        (tasks[o].running /\ tasks[r].session # 0)
                            => tasks[o].session # tasks[r].session
    /\ (HttpAnswered /\ response.status \in {200, 500}) =>
            /\ LifecycleInOrder(queries)
            /\ response.status = 200 =>
                    /\ Len(queries) = 4
                    /\ queries[1] = "open" /\ queries[2] = "initialize"
                    /\ queries[3] = IF request.tool = "execute_tool"
                                    THEN "call_tool" ELSE "list_tools"
            /\ response.session # 0 =>
                    /\ store.sessions[response.session] = "closed"
                    /\ queries[Len(queries)] = "close"
            /\ response.session = 0 => queries = <<>>

C29_Witness ==
    /\ HttpAnswered
    /\ response.status = 500
    /\ queries = <<"open", "initialize", "call_tool", "close">>
    /\ \E r \in DOMAIN tasks :
            /\ tasks[r].running
            /\ tasks[r].pc = "initialized"
            /\ tasks[r].session # response.session


-----------------------------------------------------------------------------
(* Claims about the Streamable HTTP server *)

\* C25: once the server has been started through run_http_server, with
\* SQUBER_REQUIRE_AUTH forced to "true", no tool is executed for a request
\* that does not carry a valid API key.
C25_StreamableHttpRequiresKey ==
    ( /\ store.serving
      /\ response.kind = "tools_call"
      /\ response.executed )
        => /\ store.env.SQUBER_REQUIRE_AUTH = Some("true")
           /\ ValidateApiKey(store.valid_keys, request.x_api_key)

=============================================================================
